---- MODULE Spec2Model ----
(***************************************************************************)
(* Pricing and quoting core of the Symmetry fund AMM adapter.              *)
(*                                                                         *)
(* Sources:                                                                *)
(*   src/jupiter-core/src/amms/accounts.rs          (mul_div, decoders,    *)
(*                                                   OraclePrice::load)    *)
(*   src/symmetry-math/src/amms/symmetry_token_swap.rs                     *)
(*                                                  (curve walkers, the    *)
(*                                                   Amm update / quote)   *)
(*                                                                         *)
(* Number representation.  The program computes on u64 and u128 values,    *)
(* which do not fit the model checker's machine integers.  A u64 / u128    *)
(* value is therefore a sequence of limbs in radix Base, least significant *)
(* limb first, without leading zero limbs (zero is the empty sequence).    *)
(* u8 / i32 fields and loop indices are plain integers.                    *)
(***************************************************************************)
EXTENDS Integers, Sequences, FiniteSets, TLC

VARIABLES
    overflow_checks,  \* build profile: TRUE = arithmetic overflow panics, FALSE = wraps
    md,               \* one call of mul_div: its arguments and its result
    sysvar_clock,     \* the chain clock that Clock::get() reads
    orc,              \* one call of OraclePrice::load: its arguments and its result
    walk,             \* two calls of a curve walker: arguments, loop variables, results
    amm,              \* the SymmetryTokenSwap object that update writes and quote reads
    last,             \* the last call on amm: its arguments, locals and result
    dec               \* one call of an account decoder: its buffer and its result

vars == <<overflow_checks, md, sysvar_clock, orc, walk, amm, last, dec>>

\* a part of the state that the running specification does not use
Idle == [pc |-> "idle"]

---------------------------------------------------------------------------
(* Unbounded naturals as limb sequences.                                   *)

Base == 10000

Limb(a, i) == IF i <= Len(a) THEN a[i] ELSE 0

\* the position of the last non-zero limb of s (0 when there is none)
Top(s) ==
    IF \A i \in 1 .. Len(s) : s[i] = 0 THEN 0
    ELSE CHOOSE i \in 1 .. Len(s) : s[i] # 0 /\ \A j \in i + 1 .. Len(s) : s[j] = 0

Strip(s) == SubSeq(s, 1, Top(s))

\* the limbs s as a sequence without leading zero limbs
Norm(s) == Strip(s \o <<>>)

\* the limbs of a machine-sized integer n >= 0
N(n) == Norm(<<n % Base, (n \div Base) % Base, n \div (Base * Base)>>)

Lt(a, b) ==
    IF Len(a) # Len(b) THEN Len(a) < Len(b)
    ELSE \E i \in 1 .. Len(a) :
             a[i] < b[i] /\ \A j \in i + 1 .. Len(a) : a[j] = b[j]

Le(a, b) == ~Lt(b, a)

MaxLen(a, b) == IF Len(a) < Len(b) THEN Len(b) ELSE Len(a)

\* the carry into limb i of a + b
Carry(a, b, i) ==
    IF \E j \in 1 .. i - 1 :
           /\ Limb(a, j) + Limb(b, j) >= Base
           /\ \A k \in j + 1 .. i - 1 : Limb(a, k) + Limb(b, k) = Base - 1
    THEN 1 ELSE 0

Add(a, b) ==
    IF a = <<>> THEN b
    ELSE IF b = <<>> THEN a
    ELSE Norm([i \in 1 .. MaxLen(a, b) + 1 |->
                  (Limb(a, i) + Limb(b, i) + Carry(a, b, i)) % Base])

\* the borrow out of the limbs below limb i of a - b
Borrow(a, b, i) ==
    IF \E j \in 1 .. i - 1 :
           /\ a[j] < Limb(b, j)
           /\ \A k \in j + 1 .. i - 1 : a[k] = Limb(b, k)
    THEN 1 ELSE 0

\* a - b for a >= b
Sub(a, b) ==
    IF b = <<>> THEN a
    ELSE IF a = b THEN <<>>
    ELSE Norm([i \in 1 .. Len(a) |-> (a[i] - Limb(b, i) - Borrow(a, b, i)) % Base])

Shift(a) == IF a = <<>> THEN a ELSE <<0>> \o a

\* a * k for a limb-sized k: the low halves of the limb products plus the
\* high halves one position up
MulSmall(a, k) ==
    IF a = <<>> \/ k = 0 THEN <<>>
    ELSE Add(Norm([i \in 1 .. Len(a) |-> (a[i] * k) % Base]),
             Shift(Norm([i \in 1 .. Len(a) |-> (a[i] * k) \div Base])))

\* a * b, one limb of b at a time from the top; p.acc is a times the limbs
\* of b above position p.i
RECURSIVE MulLoop(_, _, _)
MulLoop(a, b, p) ==
    IF p.i = 0 THEN p
    ELSE MulLoop(a, b, [i |-> p.i - 1,
                        acc |-> Add(MulSmall(a, b[p.i]), Shift(p.acc))])

Mul(a, b) ==
    IF a = <<>> \/ b = <<>> THEN <<>>
    ELSE MulLoop(a, b, [i |-> Len(b), acc |-> <<>>]).acc

Cons(d, q) == IF d = 0 /\ q = <<>> THEN <<>> ELSE <<d>> \o q

RECURSIVE Fit(_, _, _)
Fit(r, b, d) == IF Lt(r, MulSmall(b, d)) THEN Fit(r, b, d - 1) ELSE d

\* the first guess of a quotient limb, from the top limbs of r and b
QGuess(r, b, n) ==
    IF (Limb(r, n + 1) * Base + Limb(r, n)) \div b[n] > Base - 1 THEN Base - 1
    ELSE (Limb(r, n + 1) * Base + Limb(r, n)) \div b[n]

\* the quotient limb of r / b, for r < b * Base and b's top limb >= Base / 2
QDigit(r, b) == Fit(r, b, QGuess(r, b, Len(b)))

DivEmit(p, b, r, d) ==
    [i |-> p.i - 1, q |-> Cons(d, p.q), r |-> Sub(r, MulSmall(b, d))]

DivDigit(p, b, r) ==
    IF Lt(r, b) THEN [i |-> p.i - 1, q |-> Cons(0, p.q), r |-> r]
    ELSE DivEmit(p, b, r, QDigit(r, b))

\* long division, one limb of a at a time from the top; p.q and p.r are
\* the quotient and the remainder of the limbs of a above position p.i
RECURSIVE DivLoop(_, _, _)
DivLoop(a, b, p) ==
    IF p.i = 0 THEN p
    ELSE DivLoop(a, b, DivDigit(p, b, Cons(a[p.i], p.r)))

\* division by a limb-sized k, the remainder p.r being a machine integer
RECURSIVE DivSmallLoop(_, _, _)
DivSmallLoop(a, k, p) ==
    IF p.i = 0 THEN p
    ELSE DivSmallLoop(a, k, [i |-> p.i - 1,
                             q |-> Cons((p.r * Base + a[p.i]) \div k, p.q),
                             r |-> (p.r * Base + a[p.i]) % k])

DivSmall(a, k) == DivSmallLoop(a, k, [i |-> Len(a), q |-> <<>>, r |-> 0])

DivUnscale(res, f) == [q |-> res.q, r |-> DivSmall(res.r, f).q]

DivScaled(a, b) ==
    IF Lt(a, b) THEN [i |-> 0, q |-> <<>>, r |-> a]
    ELSE DivLoop(a, b, [i |-> Len(a), q |-> <<>>, r |-> <<>>])

\* quotient and remainder of a / b for b # 0 (schoolbook long division on
\* operands scaled by f so that the divisor's top limb is at least Base / 2)
DivBy(a, b, f) ==
    IF f = 1 THEN DivScaled(a, b)
    ELSE DivUnscale(DivScaled(MulSmall(a, f), MulSmall(b, f)), f)

DivMod(a, b) ==
    IF Lt(a, b) THEN [q |-> <<>>, r |-> a]
    ELSE DivBy(a, b, Base \div (b[Len(b)] + 1))

PowSquare(h, odd, k) == IF odd THEN MulSmall(Mul(h, h), k) ELSE Mul(h, h)

RECURSIVE Pow(_, _)
Pow(k, n) == IF n = 0 THEN <<1>> ELSE PowSquare(Pow(k, n \div 2), n % 2 = 1, k)

Zero == <<>>
One == <<1>>
TwoTo64 == Pow(2, 64)
TwoTo128 == Pow(2, 128)
U64_MAX == Sub(TwoTo64, One)
U128_MAX == Sub(TwoTo128, One)

---------------------------------------------------------------------------
(* Rust integer arithmetic.  Panic stands for a result that was never      *)
(* produced because the thread panicked; it propagates through every       *)
(* operation.  Overflow of +, -, * and pow on u64 panics when the build    *)
(* has overflow checks and wraps modulo 2^64 when it has not.              *)

Panic == <<-1>>

Overflowed(wrapped) == IF overflow_checks THEN Panic ELSE wrapped

\* the u64 that an operation with exact result x produces
U64Wrap(x) == IF Le(x, U64_MAX) THEN x ELSE Overflowed(DivMod(x, TwoTo64).r)

U64Add(a, b) ==
    IF a = Panic \/ b = Panic THEN Panic ELSE U64Wrap(Add(a, b))

U64Sub(a, b) ==
    IF a = Panic \/ b = Panic THEN Panic
    ELSE IF Le(b, a) THEN Sub(a, b) ELSE Overflowed(Sub(Add(a, TwoTo64), b))

U64Mul(a, b) ==
    IF a = Panic \/ b = Panic THEN Panic ELSE U64Wrap(Mul(a, b))

\* a / b on u64: division by zero panics in every build
U64Div(a, b) ==
    IF a = Panic \/ b = Panic \/ b = Zero THEN Panic ELSE DivMod(a, b).q

\* u64::pow(10, n)
U64Pow10(n) == U64Wrap(Pow(10, n))

---------------------------------------------------------------------------
(* accounts.rs: mul_div                                                    *)

\* a u128 result, or the default when it does not fit
checked_u128(p) == IF Le(p, U128_MAX) THEN p ELSE Zero

\* (a as u128).checked_mul(b as u128).unwrap_or_default()
checked_mul_u128(a, b) == checked_u128(Mul(a, b))

\* x.checked_div(c as u128).unwrap_or_default()
checked_div_u128(x, c) ==
    IF c = Zero \/ x = Zero THEN Zero ELSE DivMod(x, c).q

\* u64::try_from(x).unwrap_or_default()
try_into_u64(x) == IF Le(x, U64_MAX) THEN x ELSE Zero

\* mutant: the quotient is cast with `as u64` (truncated) instead of try_into
mul_div_truncating_cast(a, b, c) ==
    IF a = Panic \/ b = Panic \/ c = Panic THEN Panic
    ELSE IF c = Zero THEN Zero
    ELSE DivMod(checked_div_u128(checked_mul_u128(a, b), c), TwoTo64).r

\* mutant: the division rounds up
mul_div_rounding_up(a, b, c) ==
    IF a = Panic \/ b = Panic \/ c = Panic THEN Panic
    ELSE IF c = Zero THEN Zero
    ELSE try_into_u64(checked_div_u128(Add(checked_mul_u128(a, b), Sub(c, One)), c))

mul_div(a, b, c) ==
    IF a = Panic \/ b = Panic \/ c = Panic THEN Panic
    ELSE IF c = Zero THEN Zero
    ELSE try_into_u64(checked_div_u128(checked_mul_u128(a, b), c))


---------------------------------------------------------------------------
(* accounts.rs: constants                                                  *)

ONE_USD == Pow(10, 12)
BPS_DIVIDER == N(10000)
WEIGHT_MULTIPLIER == N(10000)
NUM_OF_POINTS_IN_CURVE_DATA == 10
USE_CURVE_DATA == 1
LP_DISABLED == 0
ORACLE_ACCOUNT_SIZE == <<3312, 809>>

---------------------------------------------------------------------------
(* Account data: a byte buffer of length len whose bytes are zero except   *)
(* at the offsets listed in at.                                            *)

Byte(d, i) == IF i \in DOMAIN d.at THEN d.at[i] ELSE 0

RECURSIVE LeBytes(_, _, _)
LeBytes(d, off, k) ==
    IF k = 0 THEN Zero
    ELSE Add(N(Byte(d, off)), MulSmall(LeBytes(d, off + 1, k - 1), 256))

\* u64::from_le_bytes(account_data[off..off + 8].try_into().unwrap_or_default());
\* slicing past the end of the buffer panics
le_u64(d, off) == IF off + 8 > d.len THEN Panic ELSE LeBytes(d, off, 8)

\* u32::from_le_bytes(account_data[off..off + 4]...)
le_u32(d, off) == IF off + 4 > d.len THEN Panic ELSE LeBytes(d, off, 4)

\* i32::from_le_bytes(account_data[off..off + 4]...), as a signed integer
le_i32(d, off) ==
    LET top == Byte(d, off + 3)
    IN Byte(d, off) + 256 * Byte(d, off + 1) + 65536 * Byte(d, off + 2)
       + 16777216 * (IF top >= 128 THEN top - 256 ELSE top)

\* i64::from_le_bytes(...): the value is kept as its 64-bit pattern
le_i64(d, off) == le_u64(d, off)

\* x < 0 for an i64 kept as its bit pattern
I64Negative(x) == Le(Pow(2, 63), x)

---------------------------------------------------------------------------
(* accounts.rs: OraclePrice::load                                          *)

Ok(v) == [tag |-> "Ok", v |-> v]
Err(msg) == [tag |-> "Err", msg |-> msg]
Panicked == [tag |-> "Panic"]

\* Clock::get().unwrap_or_default()
Clock_default == [slot |-> Zero, unix_timestamp |-> Zero]
Clock_get ==
    IF sysvar_clock.available
    THEN [slot |-> sysvar_clock.slot, unix_timestamp |-> sysvar_clock.unix_timestamp]
    ELSE Clock_default

\* u64::pow(10, (-expo) as u32): a positive expo casts to at least 2^31,
\* for which 10^n overflows and wraps to 0 (10^n is a multiple of 2^64)
pow_num_of(expo) == IF expo > 0 THEN Overflowed(Zero) ELSE U64Pow10(-expo)

\* the (price, confidence, oracle_live) triple of an oracle_type 0 account
oracle_type0(account_data, token_settings) ==
    LET valid_slot == le_u64(account_data, 40)
        expo == le_i32(account_data, 20)
        price == le_i64(account_data, 208)
        conf == le_u64(account_data, 216)
        status == le_u32(account_data, 224)
        slot_limit == U64Add(N(50), valid_slot)
        conf10 == U64Mul(conf, N(10))
        oracle_live ==
            IF \/ Le(slot_limit, Clock_get.slot)
               \/ status # One
               \/ I64Negative(price)
               \/ Lt(price, conf10)
            THEN 0 ELSE 1
        pow_num == pow_num_of(expo)
        avg_price == mul_div(price, ONE_USD, pow_num)
        confidence == mul_div(conf, ONE_USD, pow_num)
        base_confidene == mul_div(confidence, N(token_settings.oracle_confidence_pct), N(100))
    IN IF Panic \in {slot_limit, conf10, pow_num} THEN <<Panic, Panic, 0>>
       ELSE <<avg_price, base_confidene, oracle_live>>

\* oracle_type1 with a reading that stops being live above age 30
oracle_type1_live_until_thirty(account_data, token_settings) ==
    LET price_start == token_settings.oracle_index * 8 + 9
        mantissa == le_u64(account_data, price_start)
        write_timestamp == le_u64(account_data, price_start + 400)
        current_time == Clock_get.unix_timestamp
        limit40 == U64Add(write_timestamp, N(40))
        limit30 == U64Add(write_timestamp, N(30))
        limit10 == U64Add(write_timestamp, N(10))
        oracle_live == IF Lt(limit30, current_time) THEN 0 ELSE 1
        time_based_confidence_bps ==
            IF Lt(limit30, current_time) THEN N(9900)
            ELSE IF Lt(limit10, current_time)
                 THEN U64Add(N(token_settings.oracle_confidence_pct),
                             U64Mul(U64Sub(U64Sub(current_time, write_timestamp), N(10)), N(2)))
                 ELSE N(token_settings.oracle_confidence_pct)
        avg_price == mul_div(mantissa, N(10000 - token_settings.oracle_confidence_pct), N(10000))
        base_confidence == mul_div(avg_price, time_based_confidence_bps, N(10000))
    IN IF Panic \in {mantissa, write_timestamp, limit40, limit30, limit10,
                     time_based_confidence_bps}
       THEN <<Panic, Panic, 0>>
       ELSE <<avg_price, base_confidence, oracle_live>>

\* the (price, confidence, oracle_live) triple of an oracle_type 1 account
oracle_type1(account_data, token_settings) ==
    LET price_start == token_settings.oracle_index * 8 + 9
        mantissa == le_u64(account_data, price_start)
        write_timestamp == le_u64(account_data, price_start + 400)
        current_time == Clock_get.unix_timestamp
        limit40 == U64Add(write_timestamp, N(40))
        limit30 == U64Add(write_timestamp, N(30))
        limit10 == U64Add(write_timestamp, N(10))
        oracle_live == IF Lt(limit40, current_time) THEN 0 ELSE 1
        time_based_confidence_bps ==
            IF Lt(limit30, current_time) THEN N(9900)
            ELSE IF Lt(limit10, current_time)
                 THEN U64Add(N(token_settings.oracle_confidence_pct),
                             U64Mul(U64Sub(U64Sub(current_time, write_timestamp), N(10)), N(2)))
                 ELSE N(token_settings.oracle_confidence_pct)
        avg_price == mul_div(mantissa, N(10000 - token_settings.oracle_confidence_pct), N(10000))
        base_confidence == mul_div(avg_price, time_based_confidence_bps, N(10000))
    IN IF Panic \in {mantissa, write_timestamp, limit40, limit30, limit10,
                     time_based_confidence_bps}
       THEN <<Panic, Panic, 0>>
       ELSE <<avg_price, base_confidence, oracle_live>>

\* Ok(OraclePrice { sell_price, avg_price: price, buy_price, oracle_live })
OraclePrice_new(sell_price, price, buy_price, oracle_live) ==
    IF Panic \in {price, sell_price, buy_price} THEN Panicked
    ELSE Ok([sell_price |-> sell_price, avg_price |-> price,
             buy_price |-> buy_price, oracle_live |-> oracle_live])

\* the band around price: price -/+ coinfidence -/+ additional_confidence
OraclePrice_band(price, coinfidence, additional_confidence, oracle_live) ==
    OraclePrice_new(U64Sub(U64Sub(price, coinfidence), additional_confidence),
                    price,
                    U64Add(U64Add(price, coinfidence), additional_confidence),
                    oracle_live)

OraclePrice_finish(price, coinfidence, oracle_live, token_settings) ==
    OraclePrice_band(price, coinfidence,
                     mul_div(price, N(token_settings.fixed_confidence_bps), N(10000)),
                     oracle_live)

OraclePrice_triple(t, token_settings) ==
    OraclePrice_finish(t[1], t[2], t[3], token_settings)

OraclePrice_load(account_data, token_settings) ==
    IF token_settings.oracle_type + 1 > Len(ORACLE_ACCOUNT_SIZE)
    THEN Panicked   \* ORACLE_ACCOUNT_SIZE[oracle_type] is out of bounds
    ELSE IF account_data.len # ORACLE_ACCOUNT_SIZE[token_settings.oracle_type + 1]
    THEN Err("Wrong account size for oracle")
    ELSE OraclePrice_triple(
             CASE token_settings.oracle_type = 0 ->
                      oracle_type0(account_data, token_settings)
               [] token_settings.oracle_type = 1 ->
                      oracle_type1(account_data, token_settings)
               [] OTHER -> <<Zero, Zero, 0>>,
             token_settings)

---------------------------------------------------------------------------
(* Inputs of the pure-function checks.                                     *)

\* small u64 values are drawn from 0 .. MaxSmall
MaxSmall == 3

SmallU64 == {N(n) : n \in 0 .. MaxSmall}

\* landmark u64 values: units, the curve-kick amounts, 2^32, 2^63, 2^64 - 1
LandmarkU64 == {N(10000), Pow(10, 12), Pow(2, 32), Pow(2, 63), U64_MAX}

MulDivArgs == SmallU64 \cup LandmarkU64

---------------------------------------------------------------------------
(* Specification SpecMulDiv: one call of mul_div on drawn arguments.       *)

MdInit ==
    /\ overflow_checks \in BOOLEAN
    /\ sysvar_clock = Idle
    /\ orc = Idle
    /\ walk = Idle
    /\ amm = Idle
    /\ last = Idle
    /\ dec = Idle
    /\ md \in [pc : {"call"}, a : MulDivArgs, b : MulDivArgs, c : MulDivArgs,
               out : {Zero}]

MdCall ==
    /\ md.pc = "call"
    /\ md' = [md EXCEPT !.pc = "done", !.out = mul_div(md.a, md.b, md.c)]
    /\ UNCHANGED <<overflow_checks, sysvar_clock, orc, walk, amm, last, dec>>

MdNext == MdCall

SpecMulDiv == MdInit /\ [][MdNext]_vars

\* the exact product a * b of the call's arguments
MdProduct == Mul(md.a, md.b)

\* the exact quotient a * b / c does not fit in 64 bits
MdQuotientOverflows == Le(Mul(TwoTo64, md.c), MdProduct)

(* C6: mul_div(a, b, c) never aborts; it returns 0 when c = 0 or when the  *)
(* exact quotient a*b/c exceeds 2^64 - 1, and otherwise the floor q of     *)
(* a*b/c, that is the q with q*c <= a*b < (q+1)*c.                         *)
C6_MulDivIsSaturatingFloor ==
    md.pc = "done" =>
        /\ md.out # Panic
        /\ IF md.c = Zero \/ MdQuotientOverflows
           THEN md.out = Zero
           ELSE /\ Le(Mul(md.out, md.c), MdProduct)
                /\ Lt(MdProduct, Mul(Add(md.out, One), md.c))

\* C6 witness: a call whose quotient fits, is not zero and is rounded down
C6_Witness ==
    /\ md.pc = "done"
    /\ md.out # Zero
    /\ Mul(md.out, md.c) # MdProduct

(* C7 as stated: mul_div(a, b, c) <= a*b/c, and the result is zero if and  *)
(* only if c = 0 or a*b = 0.                                               *)
C7_ZeroIffZeroDivisorOrNumerator ==
    md.pc = "done" =>
        /\ md.c # Zero => Le(Mul(md.out, md.c), MdProduct)
        /\ md.out = Zero <=> (md.c = Zero \/ MdProduct = Zero)

(* C7 amended: mul_div(a, b, c) <= a*b/c, and the result is zero if and    *)
(* only if c = 0, or a*b < c (the floor is zero), or the quotient exceeds  *)
(* 2^64 - 1 (saturation).                                                  *)
C7_ZeroIffFloorZeroOrSaturated ==
    md.pc = "done" =>
        /\ md.c # Zero => Le(Mul(md.out, md.c), MdProduct)
        /\ md.out = Zero <=>
               (md.c = Zero \/ Lt(MdProduct, md.c) \/ MdQuotientOverflows)

\* C7 witness: a zero result with a non-zero divisor and a non-zero numerator
C7_Witness ==
    /\ md.pc = "done"
    /\ md.c # Zero
    /\ MdProduct # Zero
    /\ Lt(MdProduct, md.c)
    /\ md.out = Zero

---------------------------------------------------------------------------
(* Oracle accounts as the oracle programs write them (inputs of load).     *)

RECURSIVE ToLe(_, _)
ToLe(v, k) == IF k = 0 THEN <<>>
              ELSE <<DivSmall(v, 256).r>> \o ToLe(DivSmall(v, 256).q, k - 1)

Write(d, off, bytes) ==
    LET span == off .. off + Len(bytes) - 1
    IN [d EXCEPT !.at = [i \in (DOMAIN d.at) \cup span |->
                            IF i \in span THEN bytes[i - off + 1] ELSE d.at[i]]]

Blank(len) == [len |-> len, at |-> <<>>]

I32Bits(e) == IF e < 0 THEN Sub(Pow(2, 32), N(-e)) ELSE N(e)

\* an oracle_type 0 account
PythAccount(valid_slot, expo, price, conf, status) ==
    Write(Write(Write(Write(Write(Blank(3312),
        20, ToLe(I32Bits(expo), 4)),
        40, ToLe(valid_slot, 8)),
        208, ToLe(price, 8)),
        216, ToLe(conf, 8)),
        224, ToLe(status, 4))

\* an oracle_type 1 account with one written entry
TableAccount(index, mantissa, write_timestamp) ==
    Write(Write(Blank(809),
        9 + 8 * index, ToLe(mantissa, 8)),
        409 + 8 * index, ToLe(write_timestamp, 8))

PythAccounts ==
    {PythAccount(N(100), expo, price, conf, status) :
        expo \in {-8, -6, 1},
        price \in {Zero, Pow(10, 9), Add(Pow(2, 63), One)},
        conf \in {Zero, Pow(10, 7), Pow(10, 9)},
        status \in {Zero, One}}

TableAccounts ==
    {TableAccount(1, mantissa, N(1000)) : mantissa \in {N(10000), ONE_USD, Pow(10, 15)}}

\* oracle_index 50 is the first index whose timestamp lies past the end of
\* an oracle_type 1 account
OracleSettings ==
    [oracle_type : {0, 1, 2}, oracle_index : {0, 1, 50},
     oracle_confidence_pct : {0, 100, 255}, fixed_confidence_bps : {0, 200}]

\* the chain clock: 20 or 50 slots after valid_slot; 5 to 41 seconds after
\* write_timestamp; and a clock that Clock::get() cannot read in the
\* running process
Clocks ==
    {[available |-> TRUE, slot |-> N(120), unix_timestamp |-> N(t)] :
        t \in {1005, 1010, 1011, 1020, 1030, 1031, 1040, 1041}}
    \cup {[available |-> TRUE, slot |-> N(150), unix_timestamp |-> N(1005)],
          [available |-> FALSE, slot |-> N(150), unix_timestamp |-> N(1045)]}

---------------------------------------------------------------------------
(* Specification SpecOracle: one call of OraclePrice::load.                *)

OrcInit ==
    /\ overflow_checks \in BOOLEAN
    /\ md = Idle
    /\ walk = Idle
    /\ amm = Idle
    /\ last = Idle
    /\ dec = Idle
    /\ sysvar_clock \in Clocks
    /\ orc \in [pc : {"call"}, account_data : PythAccounts \cup TableAccounts,
                token_settings : OracleSettings, out : {Idle}]

OrcLoad ==
    /\ orc.pc = "call"
    /\ orc' = [orc EXCEPT !.pc = "done",
                          !.out = OraclePrice_load(orc.account_data, orc.token_settings)]
    /\ UNCHANGED <<overflow_checks, md, sysvar_clock, walk, amm, last, dec>>

OrcNext == OrcLoad

SpecOracle == OrcInit /\ [][OrcNext]_vars

(* C3: every OraclePrice that load returns with oracle_live = 1 satisfies  *)
(* sell_price <= avg_price <= buy_price.                                   *)
C3_LivePriceOrdered ==
    (orc.pc = "done" /\ orc.out.tag = "Ok" /\ orc.out.v.oracle_live = 1) =>
        /\ Le(orc.out.v.sell_price, orc.out.v.avg_price)
        /\ Le(orc.out.v.avg_price, orc.out.v.buy_price)

---------------------------------------------------------------------------
(* symmetry_token_swap.rs: SymmetryMath.  The curve walkers are loops; one *)
(* iteration is an operator from the loop variables w (and the call's      *)
(* arguments a) to the loop variables after it.  w.pc is "loop" while the  *)
(* loop goes on, "exit" once it has ended (break, or step ran out), and    *)
(* "panic" when the iteration panicked.                                    *)

\* the mul_div of accounts.rs; it yields a value for every input, so the
\* `.context("mul div err")?` exits are never taken
SymmetryMath_mul_div(a, b, c) == mul_div(a, b, c)

amount_to_usd_value(amount, decimals, price) ==
    SymmetryMath_mul_div(amount, price, U64Pow10(decimals))

usd_value_to_amount(worth, decimals, price) ==
    SymmetryMath_mul_div(worth, U64Pow10(decimals), price)

\* let fees = mul_div(value_before_tw, fee_before, BPS) + mul_div(value_after_tw, fee_after, BPS)
swap_fees(value_before_tw, value_after_tw, token_settings) ==
    U64Add(SymmetryMath_mul_div(value_before_tw,
                                N(token_settings.token_swap_fee_before_tw_bps),
                                BPS_DIVIDER),
           SymmetryMath_mul_div(value_after_tw,
                                N(token_settings.token_swap_fee_after_tw_bps),
                                BPS_DIVIDER))

Min(a, b) == IF Lt(b, a) THEN b ELSE a

\* the loop variables when the loop of compute_value_of_sold_token is entered
sold_enter(a) ==
    [pc |-> "loop", step |-> 0,
     current_amount |-> a.start_amount,
     curve_offset |-> IF Lt(a.target_amount, a.start_amount)
                      THEN Sub(a.start_amount, a.target_amount) ELSE Zero,
     current_output |-> Zero,
     left |-> a.input,
     current_price |-> a.price.sell_price]

sold_step_amount(w, a) ==
    IF w.step < NUM_OF_POINTS_IN_CURVE_DATA
    THEN a.curve_data.amount[w.step + 1] ELSE w.left

\* mutant: a curve point's price applies from the interval after its own
sold_current_price_of_previous_point(w, a) ==
    IF /\ 0 < w.step
       /\ Lt(a.curve_data.price[w.step], w.current_price)
       /\ a.token_settings.use_curve_data = USE_CURVE_DATA
    THEN a.curve_data.price[w.step] ELSE w.current_price

\* mutant: the curve price is taken whatever use_curve_data says
sold_current_price_always_curve(w, a) ==
    IF /\ w.step < NUM_OF_POINTS_IN_CURVE_DATA
       /\ Lt(a.curve_data.price[w.step + 1], w.current_price)
    THEN a.curve_data.price[w.step + 1] ELSE w.current_price

sold_current_price(w, a) ==
    IF /\ w.step < NUM_OF_POINTS_IN_CURVE_DATA
       /\ Lt(a.curve_data.price[w.step + 1], w.current_price)
       /\ a.token_settings.use_curve_data = USE_CURVE_DATA
    THEN a.curve_data.price[w.step + 1] ELSE w.current_price

walk_curve_offset(w) ==
    IF w.step = NUM_OF_POINTS_IN_CURVE_DATA THEN Zero ELSE w.curve_offset

\* the loop goes on to the next step unless step was the last one
walk_next_pc(w) ==
    IF w.step + 1 < NUM_OF_POINTS_IN_CURVE_DATA + 1 THEN "loop" ELSE "exit"

walk_panic(w) == [w EXCEPT !.pc = "panic"]

\* `curve_offset -= step_amount; continue;`
walk_continue(w, current_price, curve_offset) ==
    [w EXCEPT !.pc = walk_next_pc(w), !.step = w.step + 1,
              !.current_price = current_price, !.curve_offset = curve_offset]

\* mutant: the whole interval counts as before the target weight
sold_amount_before_tw_whole_interval(current_amount, target_amount, amount_in_interval, sum) ==
    amount_in_interval

\* amount_before_tw, sum being current_amount + amount_in_interval
sold_amount_before_tw(current_amount, target_amount, amount_in_interval, sum) ==
    IF Le(target_amount, current_amount) THEN Zero
    ELSE IF sum = Panic THEN Panic
    ELSE IF Le(target_amount, sum)
         THEN U64Sub(amount_in_interval, U64Sub(sum, target_amount))
         ELSE amount_in_interval

sold_finish(w, current_price, current_output_value, amount_left, current_amount) ==
    IF Panic \in {current_output_value, current_amount} THEN walk_panic(w)
    ELSE [pc |-> IF amount_left = Zero THEN "exit" ELSE walk_next_pc(w),
          step |-> w.step + 1,
          current_amount |-> current_amount,
          curve_offset |-> Zero,
          current_output |-> current_output_value,
          left |-> amount_left,
          current_price |-> current_price]

sold_accumulate(w, current_price, amount_in_interval, net_value) ==
    IF net_value = Panic THEN walk_panic(w)
    ELSE sold_finish(w, current_price,
                U64Add(w.current_output, net_value),
                Sub(w.left, amount_in_interval),
                U64Add(w.current_amount, amount_in_interval))

sold_fees(w, a, current_price, amount_in_interval, value_before_tw, value_after_tw) ==
    IF Panic \in {value_before_tw, value_after_tw} THEN walk_panic(w)
    ELSE sold_accumulate(w, current_price, amount_in_interval,
        U64Sub(U64Add(value_before_tw, value_after_tw),
               swap_fees(value_before_tw, value_after_tw, a.token_settings)))

sold_values(w, a, current_price, amount_in_interval, amount_before_tw) ==
    IF amount_before_tw = Panic THEN walk_panic(w)
    ELSE sold_fees(w, a, current_price, amount_in_interval,
             amount_to_usd_value(amount_before_tw, a.token_settings.decimals,
                                 current_price),
             amount_to_usd_value(Sub(amount_in_interval, amount_before_tw),
                                 a.token_settings.decimals, current_price))

sold_split(w, a, current_price, amount_in_interval) ==
    sold_values(w, a, current_price, amount_in_interval,
        sold_amount_before_tw(w.current_amount, a.target_amount, amount_in_interval,
                              U64Add(w.current_amount, amount_in_interval)))

sold_interval(w, a, step_amount, current_price, curve_offset) ==
    IF Le(step_amount, curve_offset)
    THEN walk_continue(w, current_price, Sub(curve_offset, step_amount))
    ELSE sold_split(w, a, current_price,
                    Min(Sub(step_amount, curve_offset), w.left))

\* one iteration of `for step in 0..NUM_OF_POINTS_IN_CURVE_DATA + 1`
sold_loop_body(w, a) ==
    sold_interval(w, a, sold_step_amount(w, a), sold_current_price(w, a),
                  walk_curve_offset(w))

\* what the function returns once the loop has ended
walk_result(w) == IF w.pc = "panic" THEN Panicked ELSE Ok(w.current_output)

RECURSIVE sold_loop(_, _)
sold_loop(w, a) == IF w.pc = "loop" THEN sold_loop(sold_loop_body(w, a), a) ELSE w

\* the arguments of one call of a walker
walk_args(input, token_settings, price, start_amount, target_amount, curve_data) ==
    [input |-> input, token_settings |-> token_settings, price |-> price,
     start_amount |-> start_amount, target_amount |-> target_amount,
     curve_data |-> curve_data]

sold_call(a) == walk_result(sold_loop(sold_enter(a), a))

compute_value_of_sold_token(amount, token_settings, price, start_amount, target_amount, curve_data) ==
    sold_call(walk_args(amount, token_settings, price, start_amount,
                        target_amount, curve_data))

\* the loop variables when the loop of compute_amount_of_bought_token is entered
bought_enter(a) ==
    [pc |-> "loop", step |-> 0,
     current_amount |-> a.start_amount,
     curve_offset |-> IF Lt(a.start_amount, a.target_amount)
                      THEN Sub(a.target_amount, a.start_amount) ELSE Zero,
     current_output |-> Zero,
     left |-> a.input,
     current_price |-> a.price.buy_price]

bought_step_amount(w, a) ==
    IF w.step < NUM_OF_POINTS_IN_CURVE_DATA
    THEN a.curve_data.amount[w.step + 1]
    ELSE usd_value_to_amount(U64Mul(w.left, N(2)), a.token_settings.decimals,
                             w.current_price)

bought_current_price(w, a) ==
    IF /\ w.step < NUM_OF_POINTS_IN_CURVE_DATA
       /\ Lt(w.current_price, a.curve_data.price[w.step + 1])
       /\ a.token_settings.use_curve_data = USE_CURVE_DATA
    THEN a.curve_data.price[w.step + 1] ELSE w.current_price

\* value_before_tw, sum being target_amount + amount_in_interval
bought_value_before_tw(current_amount, target_amount, value_in_interval, sum, decimals, current_price) ==
    IF Le(current_amount, target_amount) THEN Zero
    ELSE IF sum = Panic THEN Panic
    ELSE IF Le(current_amount, sum)
         THEN U64Sub(value_in_interval,
                     amount_to_usd_value(U64Sub(sum, current_amount), decimals,
                                         current_price))
         ELSE value_in_interval

bought_finish(w, current_price, current_output_amount, value_left, amount_bought) ==
    IF Panic \in {current_output_amount, value_left, amount_bought} THEN walk_panic(w)
    ELSE [pc |-> IF value_left = Zero THEN "exit" ELSE walk_next_pc(w),
          step |-> w.step + 1,
          current_amount |-> IF Lt(w.current_amount, amount_bought) THEN Zero
                             ELSE Sub(w.current_amount, amount_bought),
          curve_offset |-> Zero,
          current_output |-> current_output_amount,
          left |-> value_left,
          current_price |-> current_price]

bought_accumulate(w, current_price, value_in_interval, amount_bought) ==
    IF amount_bought = Panic THEN walk_panic(w)
    ELSE bought_finish(w, current_price,
                  U64Add(w.current_output, amount_bought),
                  U64Sub(w.left, value_in_interval),
                  amount_bought)

bought_amount(w, a, current_price, value_in_interval, fees) ==
    IF fees = Panic THEN walk_panic(w)
    ELSE bought_accumulate(w, current_price, value_in_interval,
        usd_value_to_amount(U64Sub(value_in_interval, fees),
                            a.token_settings.decimals, current_price))

bought_fees(w, a, current_price, value_in_interval, value_before_tw) ==
    IF value_before_tw = Panic THEN walk_panic(w)
    ELSE bought_amount(w, a, current_price, value_in_interval,
        swap_fees(value_before_tw, U64Sub(value_in_interval, value_before_tw),
                  a.token_settings))

bought_split(w, a, current_price, amount_in_interval, value_in_interval) ==
    IF amount_in_interval = Panic THEN walk_panic(w)
    ELSE bought_fees(w, a, current_price, value_in_interval,
        bought_value_before_tw(w.current_amount, a.target_amount, value_in_interval,
                               U64Add(a.target_amount, amount_in_interval),
                               a.token_settings.decimals, current_price))

\* `if value_in_interval > value_left { ... }`
bought_clip(w, a, current_price, amount_in_interval, value_in_interval) ==
    IF value_in_interval = Panic THEN walk_panic(w)
    ELSE IF Lt(w.left, value_in_interval)
         THEN bought_split(w, a, current_price,
                  usd_value_to_amount(w.left, a.token_settings.decimals,
                                      current_price),
                  w.left)
         ELSE bought_split(w, a, current_price, amount_in_interval, value_in_interval)

bought_interval(w, a, step_amount, current_price, curve_offset) ==
    IF step_amount = Panic THEN walk_panic(w)
    ELSE IF Le(step_amount, curve_offset)
         THEN walk_continue(w, current_price, Sub(curve_offset, step_amount))
         ELSE bought_clip(w, a, current_price, Sub(step_amount, curve_offset),
                  amount_to_usd_value(Sub(step_amount, curve_offset),
                                      a.token_settings.decimals, current_price))

\* one iteration of `for step in 0..NUM_OF_POINTS_IN_CURVE_DATA + 1`
bought_loop_body(w, a) ==
    bought_interval(w, a, bought_step_amount(w, a), bought_current_price(w, a),
                    walk_curve_offset(w))

RECURSIVE bought_loop(_, _)
bought_loop(w, a) == IF w.pc = "loop" THEN bought_loop(bought_loop_body(w, a), a) ELSE w

bought_call(a) == walk_result(bought_loop(bought_enter(a), a))

compute_amount_of_bought_token(value, token_settings, price, start_amount, target_amount, curve_data) ==
    bought_call(walk_args(value, token_settings, price, start_amount,
                          target_amount, curve_data))

---------------------------------------------------------------------------
(* Inputs of the curve walkers: a token (decimals, oracle price, a lot     *)
(* size), its fee and curve settings, a curve recorded around the oracle   *)
(* price, holdings around the target, and an ascending list of amounts.    *)

WalkTokens ==
    {[decimals |-> 6, price |-> ONE_USD, lot |-> N(50000)],
     [decimals |-> 0, price |-> N(3), lot |-> N(2)],
     [decimals |-> 9, price |-> N(10000), lot |-> Pow(10, 9)]}

WalkSettings(token) ==
    {[use_curve_data |-> u, decimals |-> token.decimals,
      token_swap_fee_before_tw_bps |-> f[1], token_swap_fee_after_tw_bps |-> f[2]] :
        u \in {0, USE_CURVE_DATA}, f \in {<<0, 0>>, <<10, 50>>}}

\* the oracle price with no confidence band
WalkPrice(token) ==
    [sell_price |-> token.price, avg_price |-> token.price,
     buy_price |-> token.price, oracle_live |-> 1]

\* a curve whose point i holds `lots[i]` lots at `pcts[i]` percent of the oracle price
WalkCurve(token, lots, pcts) ==
    [amount |-> [i \in 1 .. NUM_OF_POINTS_IN_CURVE_DATA |->
                    MulSmall(token.lot, lots[i])],
     price |-> [i \in 1 .. NUM_OF_POINTS_IN_CURVE_DATA |->
                    mul_div(token.price, N(pcts[i]), N(100))]]

\* sell curves: never written, one point written, all points written
SellCurves(token) ==
    {WalkCurve(token, <<0, 0, 0, 0, 0, 0, 0, 0, 0, 0>>, <<0, 0, 0, 0, 0, 0, 0, 0, 0, 0>>),
     WalkCurve(token, <<1, 0, 0, 0, 0, 0, 0, 0, 0, 0>>, <<90, 0, 0, 0, 0, 0, 0, 0, 0, 0>>),
     WalkCurve(token, <<1, 1, 1, 1, 1, 1, 1, 1, 1, 1>>,
                      <<98, 96, 94, 92, 90, 88, 86, 84, 82, 80>>)}

BuyCurves(token) ==
    {WalkCurve(token, <<0, 0, 0, 0, 0, 0, 0, 0, 0, 0>>, <<0, 0, 0, 0, 0, 0, 0, 0, 0, 0>>),
     WalkCurve(token, <<1, 0, 0, 0, 0, 0, 0, 0, 0, 0>>, <<110, 0, 0, 0, 0, 0, 0, 0, 0, 0>>),
     WalkCurve(token, <<1, 1, 1, 1, 1, 1, 1, 1, 1, 1>>,
                      <<102, 104, 106, 108, 110, 112, 114, 116, 118, 120>>)}

\* <<start_amount, target_amount>>: at the target, below it, above it, and
\* above a target that is not zero
WalkHoldings(token) ==
    {<<Zero, Zero>>,
     <<Zero, mul_div(token.lot, N(7), N(5))>>,
     <<mul_div(token.lot, N(7), N(5)), Zero>>,
     <<MulSmall(token.lot, 2), token.lot>>}

\* amounts sold, ascending: nothing, one unit, one lot, two lots, and two
\* amounts around the largest value a u64 holds at 10^12 per USD
SoldAmounts(token) ==
    <<Zero, One, token.lot, MulSmall(token.lot, 2), Pow(10, 13), MulSmall(Pow(10, 13), 2)>>

\* values spent, ascending: nothing, one unit of value, the value of one
\* lot and of two lots, 90 and 100 USD, and two values around 2^63
BoughtValues(token) ==
    <<Zero, One,
      amount_to_usd_value(token.lot, token.decimals, token.price),
      amount_to_usd_value(MulSmall(token.lot, 2), token.decimals, token.price),
      MulSmall(ONE_USD, 90), MulSmall(ONE_USD, 100),
      Sub(Pow(2, 63), One), Pow(2, 63)>>

\* two calls on the same token state with the inputs xs[k] <= xs[k + 1]
WalkCalls(fn, token, xs, curves) ==
    {[fn |-> fn, pc |-> "call", call |-> 1,
      a |-> <<walk_args(xs[k], ts, WalkPrice(token), h[1], h[2], curve),
              walk_args(xs[k + 1], ts, WalkPrice(token), h[1], h[2], curve)>>,
      w |-> Idle, out |-> <<Idle, Idle>>] :
        k \in 1 .. Len(xs) - 1, ts \in WalkSettings(token),
        h \in WalkHoldings(token), curve \in curves}

\* a token without decimals at one USD per unit, held far above its target,
\* and a buy curve whose first point is worth more than a u64 holds
HugeToken == [decimals |-> 0, price |-> ONE_USD, lot |-> Pow(2, 63)]

HugeCurve ==
    [amount |-> [i \in 1 .. NUM_OF_POINTS_IN_CURVE_DATA |->
                    IF i = 1 THEN HugeToken.lot ELSE Zero],
     price |-> [i \in 1 .. NUM_OF_POINTS_IN_CURVE_DATA |-> Zero]]

\* two purchases from that token, for nothing and for one unit of value
HugeCalls ==
    {[fn |-> "compute_amount_of_bought_token", pc |-> "call", call |-> 1,
      a |-> <<walk_args(Zero, ts, WalkPrice(HugeToken), HugeToken.lot, One, HugeCurve),
              walk_args(One, ts, WalkPrice(HugeToken), HugeToken.lot, One, HugeCurve)>>,
      w |-> Idle, out |-> <<Idle, Idle>>] :
        ts \in WalkSettings(HugeToken)}

---------------------------------------------------------------------------
(* Specification SpecWalk: two calls, one after the other, of              *)
(* compute_value_of_sold_token or of compute_amount_of_bought_token, each  *)
(* taken one loop iteration at a time.                                     *)

WalkInit ==
    /\ overflow_checks \in BOOLEAN
    /\ md = Idle
    /\ sysvar_clock = Idle
    /\ orc = Idle
    /\ walk \in UNION {WalkCalls("compute_value_of_sold_token", token,
                                 SoldAmounts(token), SellCurves(token))
                       \cup WalkCalls("compute_amount_of_bought_token", token,
                                      BoughtValues(token), BuyCurves(token)) :
                        token \in WalkTokens}
               \cup HugeCalls
    /\ amm = Idle
    /\ last = Idle
    /\ dec = Idle

\* the call is entered: the loop variables are initialised
SoldCall ==
    /\ walk.fn = "compute_value_of_sold_token"
    /\ walk.pc = "call"
    /\ walk' = [walk EXCEPT !.pc = "loop", !.w = sold_enter(walk.a[walk.call])]
    /\ UNCHANGED <<overflow_checks, md, sysvar_clock, orc, amm, last, dec>>

\* one iteration of the loop
SoldStep ==
    /\ walk.fn = "compute_value_of_sold_token"
    /\ walk.pc = "loop"
    /\ walk.w.pc = "loop"
    /\ walk' = [walk EXCEPT !.w = sold_loop_body(walk.w, walk.a[walk.call])]
    /\ UNCHANGED <<overflow_checks, md, sysvar_clock, orc, amm, last, dec>>

\* what a call leaves behind when its loop has ended: its result (or the
\* panic); the second call follows the first
walk_return(c) ==
    [c EXCEPT !.out[c.call] = walk_result(c.w),
              !.call = 2,
              !.pc = IF c.call = 1 THEN "call" ELSE "done"]

SoldReturn ==
    /\ walk.fn = "compute_value_of_sold_token"
    /\ walk.pc = "loop"
    /\ walk.w.pc # "loop"
    /\ walk' = walk_return(walk)
    /\ UNCHANGED <<overflow_checks, md, sysvar_clock, orc, amm, last, dec>>

BoughtCall ==
    /\ walk.fn = "compute_amount_of_bought_token"
    /\ walk.pc = "call"
    /\ walk' = [walk EXCEPT !.pc = "loop", !.w = bought_enter(walk.a[walk.call])]
    /\ UNCHANGED <<overflow_checks, md, sysvar_clock, orc, amm, last, dec>>

BoughtStep ==
    /\ walk.fn = "compute_amount_of_bought_token"
    /\ walk.pc = "loop"
    /\ walk.w.pc = "loop"
    /\ walk' = [walk EXCEPT !.w = bought_loop_body(walk.w, walk.a[walk.call])]
    /\ UNCHANGED <<overflow_checks, md, sysvar_clock, orc, amm, last, dec>>

BoughtReturn ==
    /\ walk.fn = "compute_amount_of_bought_token"
    /\ walk.pc = "loop"
    /\ walk.w.pc # "loop"
    /\ walk' = walk_return(walk)
    /\ UNCHANGED <<overflow_checks, md, sysvar_clock, orc, amm, last, dec>>

WalkNext ==
    \/ SoldCall \/ SoldStep \/ SoldReturn
    \/ BoughtCall \/ BoughtStep \/ BoughtReturn

SpecWalk == WalkInit /\ [][WalkNext]_vars

\* the arguments and the result of call k
WalkArg(k) == walk.a[k]
WalkOut(k) == walk.out[k]

\* both calls have returned a value
WalkBothReturned(fn) ==
    /\ walk.fn = fn
    /\ walk.pc = "done"
    /\ WalkOut(1).tag = "Ok"
    /\ WalkOut(2).tag = "Ok"

(* C4: compute_value_of_sold_token is non-decreasing in amount: of two     *)
(* calls that differ only in amount, a1 <= a2, the second returns at least *)
(* what the first returns.                                                 *)
C4_SoldValueMonotone ==
    WalkBothReturned("compute_value_of_sold_token") =>
        Le(WalkOut(1).v, WalkOut(2).v)

(* C5: compute_amount_of_bought_token is non-decreasing in value: of two   *)
(* calls that differ only in value, v1 <= v2, the second returns at least  *)
(* what the first returns.                                                 *)
C5_BoughtAmountMonotone ==
    WalkBothReturned("compute_amount_of_bought_token") =>
        Le(WalkOut(1).v, WalkOut(2).v)

\* call k is the curve-kick sale: 100_000 units of a 6-decimals token at an
\* oracle sell price of 1.0 USD, no fees, curve data in use, holdings not
\* above the target, first sell point 50_000 units at 0.9 USD, others zero
CurveKick(k) ==
    /\ walk.fn = "compute_value_of_sold_token"
    /\ WalkArg(k).input = N(100000)
    /\ WalkArg(k).token_settings.decimals = 6
    /\ WalkArg(k).token_settings.use_curve_data = USE_CURVE_DATA
    /\ WalkArg(k).token_settings.token_swap_fee_before_tw_bps = 0
    /\ WalkArg(k).token_settings.token_swap_fee_after_tw_bps = 0
    /\ WalkArg(k).price.sell_price = ONE_USD
    /\ Le(WalkArg(k).start_amount, WalkArg(k).target_amount)
    /\ WalkArg(k).curve_data.amount[1] = N(50000)
    /\ WalkArg(k).curve_data.price[1] = MulSmall(Pow(10, 11), 9)
    /\ \A i \in 2 .. NUM_OF_POINTS_IN_CURVE_DATA :
           /\ WalkArg(k).curve_data.amount[i] = Zero
           /\ WalkArg(k).curve_data.price[i] = Zero

\* call k has returned or panicked
WalkEnded(k) == WalkOut(k) # Idle

\* call k is in its loop, or at its end
WalkRunning(k) == walk.call = k /\ walk.pc = "loop"

(* C8 as stated: the curve-kick sale returns about 95_000 * 10^-6 *        *)
(* ONE_USD = 9.5 * 10^10 (within one percent).                             *)
C8_CurveKickReturnsNinetyFiveThousand ==
    \A k \in 1 .. 2 :
        (CurveKick(k) /\ WalkEnded(k)) =>
            /\ WalkOut(k).tag = "Ok"
            /\ Le(MulSmall(Pow(10, 8), 9405), Mul(WalkOut(k).v, N(10)))
            /\ Le(Mul(WalkOut(k).v, N(10)), MulSmall(Pow(10, 8), 9595))

(* C8 amended: in the curve-kick sale the price of the first curve point   *)
(* applies to that point's own 50_000 units, and the zero price entries of *)
(* the other points bring the price of the remaining 50_000 units to 0:    *)
(* after the first iteration 50_000 units are sold for 4.5 * 10^10 at 0.9  *)
(* USD, from the second iteration on the price is 0, and the call returns  *)
(* 45_000 * 10^-6 * ONE_USD = 4.5 * 10^10.                                 *)
C8_CurveKickReturnsFortyFiveThousand ==
    \A k \in 1 .. 2 :
        /\ (CurveKick(k) /\ WalkEnded(k)) =>
               WalkOut(k) = Ok(MulSmall(Pow(10, 9), 45))
        /\ (CurveKick(k) /\ WalkRunning(k) /\ walk.w.step = 1) =>
               /\ walk.w.current_price = MulSmall(Pow(10, 11), 9)
               /\ walk.w.current_output = MulSmall(Pow(10, 9), 45)
               /\ walk.w.left = N(50000)
        /\ (CurveKick(k) /\ WalkRunning(k) /\ walk.w.step > 1) =>
               /\ walk.w.current_price = Zero
               /\ walk.w.current_output = MulSmall(Pow(10, 9), 45)

\* C8 witness: a curve-kick sale has gone through all eleven steps and returned
C8_Witness ==
    /\ CurveKick(2)
    /\ walk.pc = "done"
    /\ walk.w.step = NUM_OF_POINTS_IN_CURVE_DATA + 1
    /\ WalkOut(2).tag = "Ok"

\* the oracle price a walker starts from
WalkOraclePrice(k) ==
    IF walk.fn = "compute_value_of_sold_token"
    THEN WalkArg(k).price.sell_price ELSE WalkArg(k).price.buy_price

(* C9: with use_curve_data = 0, current_price equals the oracle price the  *)
(* walker started from (sell_price when selling, buy_price when buying) at *)
(* every step of the loop, whatever the curve holds.                       *)
C9_PriceStaysAtOracleWithoutCurveData ==
    (walk.pc = "loop" /\ WalkArg(walk.call).token_settings.use_curve_data = 0) =>
        walk.w.current_price = WalkOraclePrice(walk.call)

\* C9 witness: with use_curve_data = 0 a walker has priced a slice at a step
\* whose curve point holds an amount and a price on the moving side of the
\* oracle price
C9_Witness ==
    /\ walk.pc = "loop"
    /\ WalkArg(walk.call).token_settings.use_curve_data = 0
    /\ walk.w.step = 3
    /\ walk.w.current_output # Zero
    /\ WalkArg(walk.call).curve_data.amount[3] # Zero
    /\ WalkArg(walk.call).curve_data.price[3] # Zero
    /\ WalkArg(walk.call).curve_data.price[3] # WalkOraclePrice(walk.call)

---------------------------------------------------------------------------
(* symmetry_token_swap.rs: impl Amm for SymmetryTokenSwap.                 *)
(* The object is a record with the fields of struct SymmetryTokenSwap that *)
(* update and quote use.  Token ids and array indices count from 0 as in   *)
(* the program; the sequence that holds an array is indexed from 1.        *)

None == [tag |-> "None"]
Some(v) == [tag |-> "Some", v |-> v]

\* the Ok(()) of update
Unit == "()"

\* OraclePrice before an oracle account has been decoded
OraclePrice_default ==
    [sell_price |-> Zero, avg_price |-> Zero, buy_price |-> Zero, oracle_live |-> 0]

\* TokenPriceData { amount: [0; ..], price: [0; ..] }
TokenPriceData_empty ==
    [amount |-> [i \in 1 .. NUM_OF_POINTS_IN_CURVE_DATA |-> Zero],
     price |-> [i \in 1 .. NUM_OF_POINTS_IN_CURVE_DATA |-> Zero]]

\* CurveData::empty(): no curve point for any token of the pool
CurveData_empty ==
    [buy |-> <<TokenPriceData_empty, TokenPriceData_empty, TokenPriceData_empty>>,
     sell |-> <<TokenPriceData_empty, TokenPriceData_empty, TokenPriceData_empty>>]

\* the object a fund-state account is wrapped in, before the first update
from_keyed_account(fund_state) ==
    [fund_state |-> fund_state, token_list |-> None, fund_worth |-> None,
     curve_data |-> CurveData_empty, clock |-> None]

\* try_get_account_data(account_map, key)? followed by the decoder of the
\* account: an entry of the account map is "Missing", or holds what its
\* decoder returns
get_and_load(entry) ==
    IF entry.tag = "Missing" THEN Err("Unable to get account data") ELSE entry

update_return(self, result) == [self |-> self, result |-> result]

\* the snapshot is installed: fund_worth, token_list, clock, fund_state
update_install(self, ld, p) ==
    update_return([self EXCEPT !.fund_worth = Some(p.fund_worth),
                               !.token_list = Some(p.token_list),
                               !.clock = Some(ld.clock),
                               !.fund_state = ld.fund_state],
                  Ok(Unit))

\* the loop variables after token i: its price is attached to the local
\* token list and its worth is added
update_next_token(p, id, oracle_price, fund_worth) ==
    [i |-> p.i + 1,
     token_list |-> [p.token_list EXCEPT !.list[id + 1].oracle_price = oracle_price],
     fund_worth |-> fund_worth]

RECURSIVE update_loop(_, _, _, _)

update_token(self, account_map, ld, p, id, oracle_price, fund_worth) ==
    IF fund_worth = Panic THEN update_return(self, Panicked)
    ELSE update_loop(self, account_map, ld,
                     update_next_token(p, id, oracle_price, fund_worth))

update_oracle(self, account_map, ld, p, id, token_settings, oracle_price) ==
    IF oracle_price.tag # "Ok" THEN update_return(self, oracle_price)
    ELSE IF oracle_price.v.oracle_live = 0
    THEN update_return(self, Err("One of the tokens has offline oracle status"))
    ELSE update_token(self, account_map, ld, p, id, oracle_price.v,
                      U64Add(p.fund_worth,
                             amount_to_usd_value(ld.fund_state.current_comp_amount[p.i + 1],
                                                 token_settings.decimals,
                                                 oracle_price.v.avg_price)))

\* token_list.list[fund_state.current_comp_token[i] as usize]: an id past
\* the end of the list panics
update_settings(self, account_map, ld, p, id) ==
    IF id + 1 > Len(p.token_list.list) THEN update_return(self, Panicked)
    ELSE update_oracle(self, account_map, ld, p, id, p.token_list.list[id + 1],
                       get_and_load(account_map.oracle[p.token_list.list[id + 1].oracle_account]))

\* for i in 0..self.fund_state.num_of_tokens: the bound is read from the
\* fund state the object held before this update
update_loop(self, account_map, ld, p) ==
    IF p.i >= self.fund_state.num_of_tokens THEN update_install(self, ld, p)
    ELSE IF p.i + 1 > Len(ld.fund_state.current_comp_token)
    THEN update_return(self, Panicked)
    ELSE update_settings(self, account_map, ld, p, ld.fund_state.current_comp_token[p.i + 1])

update_fund_state(self, account_map, token_list, clock, fund_state) ==
    IF fund_state.tag # "Ok" THEN update_return(self, fund_state)
    ELSE update_loop([self EXCEPT !.fund_worth = None], account_map,
                     [clock |-> clock, fund_state |-> fund_state.v],
                     [i |-> 0, token_list |-> token_list, fund_worth |-> Zero])

update_clock(self, account_map, token_list, clock) ==
    IF clock.tag # "Ok" THEN update_return(self, clock)
    ELSE update_fund_state(self, account_map, token_list, clock.v,
                           get_and_load(account_map.fund_state))

update_curve_data(self, account_map, token_list, curve_data) ==
    IF curve_data.tag # "Ok" THEN update_return(self, curve_data)
    ELSE update_clock([self EXCEPT !.curve_data = curve_data.v], account_map,
                      token_list, get_and_load(account_map.clock))

update_token_list(self, account_map, token_list) ==
    IF token_list.tag # "Ok" THEN update_return(self, token_list)
    ELSE update_curve_data(self, account_map, token_list.v,
                           get_and_load(account_map.curve_data))

\* fn update(&mut self, account_map): the object after the call and the
\* Result of the call
update(self, account_map) ==
    update_token_list([self EXCEPT !.token_list = None], account_map,
                      get_and_load(account_map.token_list))

---------------------------------------------------------------------------
(* fn quote(&self, quote_params).  The locals of the call are gathered in  *)
(* the record q; q.reached names the last group of locals that was         *)
(* computed before the call returned or panicked.                          *)

quote_locals ==
    [reached |-> "entry",
     from_token_id |-> 0, to_token_id |-> 0,
     from_token_index |-> 0, to_token_index |-> 0,
     from_token_target_amount |-> Zero, to_token_target_amount |-> Zero,
     value |-> Zero, to_amount |-> Zero,
     amount_without_fees |-> Zero, fair_amount |-> Zero,
     total_fees |-> Zero, fund_fee |-> Zero, fee_bps |-> Zero,
     from_token_worth_after_swap |-> Zero, to_token_worth_after_swap |-> Zero,
     fund_worth |-> Zero, from_new_weight |-> Zero, to_new_weight |-> Zero,
     allowed_offset |-> Zero,
     allowed_from_target_weight |-> Zero, allowed_to_target_weight |-> Zero]

quote_return(q, result) == [q |-> q, result |-> result]

\* list.iter().position(|&x| x.token_mint == mint)
position_of_mint(list, mint) ==
    IF \E i \in 1 .. Len(list) : list[i].token_mint = mint
    THEN Some((CHOOSE i \in 1 .. Len(list) :
                  /\ list[i].token_mint = mint
                  /\ \A j \in 1 .. i - 1 : list[j].token_mint # mint) - 1)
    ELSE None

\* current_comp_token.iter().position(|&x| x == (id as u64))
position_of_token(current_comp_token, id) ==
    IF \E i \in 1 .. Len(current_comp_token) : current_comp_token[i] = id
    THEN Some((CHOOSE i \in 1 .. Len(current_comp_token) :
                  /\ current_comp_token[i] = id
                  /\ \A j \in 1 .. i - 1 : current_comp_token[j] # id) - 1)
    ELSE None

from_token_settings(self, q) == self.token_list.v.list[q.from_token_id + 1]
to_token_settings(self, q) == self.token_list.v.list[q.to_token_id + 1]
from_token_price(self, q) == from_token_settings(self, q).oracle_price
to_token_price(self, q) == to_token_settings(self, q).oracle_price
from_current_amount(self, q) == self.fund_state.current_comp_amount[q.from_token_index + 1]
to_current_amount(self, q) == self.fund_state.current_comp_amount[q.to_token_index + 1]
from_target_weight(self, q) == self.fund_state.target_weight[q.from_token_index + 1]
to_target_weight(self, q) == self.fund_state.target_weight[q.to_token_index + 1]

\* fee_bps as i64: the sign and the magnitude of the two's complement value
as_i64(x) ==
    IF Lt(x, Pow(2, 63)) THEN [negative |-> FALSE, abs |-> x]
    ELSE [negative |-> TRUE, abs |-> Sub(TwoTo64, x)]

\* Ok(Quote { in_amount, out_amount, fee_amount, fee_mint, fee_pct, .. })
Quote_new(quote_params, q) ==
    [in_amount |-> quote_params.amount,
     out_amount |-> q.to_amount,
     fee_amount |-> q.total_fees,
     fee_mint |-> quote_params.output_mint,
     fee_pct |-> [mantissa |-> as_i64(q.fee_bps), scale |-> 4]]

\* the two band checks
quote_admit(self, quote_params, q) ==
    IF /\ Lt(q.allowed_from_target_weight, q.from_new_weight)
       /\ ~(q.from_token_id = 0 /\ to_target_weight(self, q) = Zero)
    THEN quote_return(q, Err("From token weight exceeds max allowed weight"))
    ELSE IF Lt(q.to_new_weight, q.allowed_to_target_weight)
    THEN quote_return(q, Err("To token weight exceeds min allowed weight"))
    ELSE quote_return(q, Ok(Quote_new(quote_params, q)))

\* allowed_from_target_weight (clipped to WEIGHT_MULTIPLIER) and allowed_to_target_weight
quote_bands(self, quote_params, q, allowed_offset, widened, narrowed) ==
    IF widened = Panic \/ narrowed = Panic THEN quote_return(q, Panicked)
    ELSE quote_admit(self, quote_params,
             [q EXCEPT !.reached = "bands",
                       !.allowed_offset = allowed_offset,
                       !.allowed_from_target_weight =
                           Min(mul_div(from_target_weight(self, q), widened,
                                       Mul(BPS_DIVIDER, BPS_DIVIDER)),
                               WEIGHT_MULTIPLIER),
                       !.allowed_to_target_weight =
                           mul_div(to_target_weight(self, q), narrowed,
                                   Mul(BPS_DIVIDER, BPS_DIVIDER))])

\* BPS_DIVIDER * BPS_DIVIDER + allowed_offset and BPS_DIVIDER * BPS_DIVIDER - allowed_offset
quote_offset(self, quote_params, q, allowed_offset) ==
    IF allowed_offset = Panic THEN quote_return(q, Panicked)
    ELSE quote_bands(self, quote_params, q, allowed_offset,
                     U64Add(Mul(BPS_DIVIDER, BPS_DIVIDER), allowed_offset),
                     U64Sub(Mul(BPS_DIVIDER, BPS_DIVIDER), allowed_offset))

\* from_new_weight, to_new_weight, then allowed_offset
quote_weights(self, quote_params, q, fund_worth) ==
    quote_offset(self, quote_params,
        [q EXCEPT !.reached = "weights",
                  !.fund_worth = fund_worth,
                  !.from_new_weight =
                      SymmetryMath_mul_div(q.from_token_worth_after_swap,
                                           WEIGHT_MULTIPLIER, fund_worth),
                  !.to_new_weight =
                      SymmetryMath_mul_div(q.to_token_worth_after_swap,
                                           WEIGHT_MULTIPLIER, fund_worth)],
        U64Mul(self.fund_state.rebalance_threshold, self.fund_state.lp_offset_threshold))

\* fund_worth = if fund_worth < worth_before { 0 } else { fund_worth - worth_before }
floor_sub(fund_worth, worth_before) ==
    IF Lt(fund_worth, worth_before) THEN Zero ELSE Sub(fund_worth, worth_before)

\* the projected fund worth: both new worths added, both old worths taken off
quote_fund_worth(self, quote_params, q, fund_worth, from_before, to_before) ==
    IF fund_worth = Panic THEN quote_return(q, Panicked)
    ELSE quote_weights(self, quote_params, q,
                       floor_sub(floor_sub(fund_worth, from_before), to_before))

quote_worth_after(self, quote_params, q, from_after, to_after) ==
    IF from_after = Panic \/ to_after = Panic THEN quote_return(q, Panicked)
    ELSE quote_fund_worth(self, quote_params,
             [q EXCEPT !.reached = "worths",
                       !.from_token_worth_after_swap = from_after,
                       !.to_token_worth_after_swap = to_after],
             U64Add(U64Add(self.fund_worth.v, from_after), to_after),
             amount_to_usd_value(from_current_amount(self, q),
                                 from_token_settings(self, q).decimals,
                                 from_token_price(self, q).avg_price),
             amount_to_usd_value(to_current_amount(self, q),
                                 to_token_settings(self, q).decimals,
                                 to_token_price(self, q).avg_price))

\* the worth of both sides after the swap, from the inflated amounts
quote_worths(self, quote_params, q, safe_from_amount, safe_to_amount) ==
    IF safe_from_amount = Panic \/ safe_to_amount = Panic THEN quote_return(q, Panicked)
    ELSE quote_worth_after(self, quote_params, q,
             amount_to_usd_value(U64Add(from_current_amount(self, q), safe_from_amount),
                                 from_token_settings(self, q).decimals,
                                 from_token_price(self, q).avg_price),
             amount_to_usd_value(Sub(to_current_amount(self, q),
                                     Min(safe_to_amount, to_current_amount(self, q))),
                                 to_token_settings(self, q).decimals,
                                 to_token_price(self, q).avg_price))

\* safe_from_amount = from_amount * 101 / 100 and
\* safe_to_amount = (amount_without_fees - fund_fee) * 101 / 100
quote_fund_fee(self, quote_params, q, fund_fee, fee_bps) ==
    IF fund_fee = Panic THEN quote_return(q, Panicked)
    ELSE quote_worths(self, quote_params,
             [q EXCEPT !.reached = "fees", !.fund_fee = fund_fee, !.fee_bps = fee_bps],
             U64Div(U64Mul(quote_params.amount, N(101)), N(100)),
             U64Div(U64Mul(U64Sub(q.amount_without_fees, fund_fee), N(101)), N(100)))

\* mul_div(total_fees, token_list.list[0].additional_data[k] as u64, 100)
fee_share(self, total_fees, k) ==
    SymmetryMath_mul_div(total_fees, N(self.token_list.v.list[1].additional_data[k]), N(100))

\* symmetry_fee, host_fee, manager_fee, fund_fee and fee_bps
quote_total_fees(self, quote_params, q) ==
    quote_fund_fee(self, quote_params, q,
        U64Sub(U64Sub(U64Sub(q.total_fees, fee_share(self, q.total_fees, 60)),
                      fee_share(self, q.total_fees, 61)),
               fee_share(self, q.total_fees, 62)),
        SymmetryMath_mul_div(Sub(q.amount_without_fees, q.to_amount),
                             Mul(BPS_DIVIDER, N(100)), q.fair_amount))

\* mutant: the fee-free amount is not clipped to the holdings
quote_clip_to_holdings_skipped(amount_without_fees, current_comp_amount) ==
    amount_without_fees

\* if amount_without_fees > current_comp_amount[to] { amount_without_fees = current_comp_amount[to] }
quote_clip_to_holdings(amount_without_fees, current_comp_amount) ==
    Min(amount_without_fees, current_comp_amount)

\* if to_amount > amount_without_fees { to_amount = amount_without_fees };
\* total_fees = amount_without_fees - to_amount
quote_clipped(self, quote_params, q, amount_without_fees, to_amount) ==
    quote_total_fees(self, quote_params,
        [q EXCEPT !.reached = "amounts",
                  !.amount_without_fees = amount_without_fees,
                  !.to_amount = to_amount,
                  !.total_fees = Sub(amount_without_fees, to_amount)])

quote_amounts(self, quote_params, q, amount_without_fees, fair_amount) ==
    IF amount_without_fees = Panic \/ fair_amount = Panic THEN quote_return(q, Panicked)
    ELSE quote_clipped(self, quote_params, [q EXCEPT !.fair_amount = fair_amount],
             quote_clip_to_holdings(amount_without_fees, to_current_amount(self, q)),
             Min(q.to_amount,
                 quote_clip_to_holdings(amount_without_fees, to_current_amount(self, q))))

\* the input converted at the given prices of the two tokens
converted(self, quote_params, q, from_price, to_price) ==
    usd_value_to_amount(
        amount_to_usd_value(quote_params.amount, from_token_settings(self, q).decimals,
                            from_price),
        to_token_settings(self, q).decimals, to_price)

\* amount_without_fees (sell price to buy price) and fair_amount (average prices)
quote_to_amount(self, quote_params, q, to_amount) ==
    IF to_amount.tag # "Ok" THEN quote_return(q, to_amount)
    ELSE quote_amounts(self, quote_params,
             [q EXCEPT !.reached = "to_amount", !.to_amount = to_amount.v],
             converted(self, quote_params, q, from_token_price(self, q).sell_price,
                       to_token_price(self, q).buy_price),
             converted(self, quote_params, q, from_token_price(self, q).avg_price,
                       to_token_price(self, q).avg_price))

quote_value(self, quote_params, q, value) ==
    IF value.tag # "Ok" THEN quote_return(q, value)
    ELSE quote_to_amount(self, quote_params,
             [q EXCEPT !.reached = "value", !.value = value.v],
             compute_amount_of_bought_token(
                 value.v, to_token_settings(self, q), to_token_price(self, q),
                 to_current_amount(self, q), q.to_token_target_amount,
                 self.curve_data.buy[q.to_token_id + 1]))

quote_targets(self, quote_params, q, from_target, to_target) ==
    IF from_target = Panic \/ to_target = Panic THEN quote_return(q, Panicked)
    ELSE quote_value(self, quote_params,
             [q EXCEPT !.reached = "targets",
                       !.from_token_target_amount = from_target,
                       !.to_token_target_amount = to_target],
             compute_value_of_sold_token(
                 quote_params.amount, from_token_settings(self, q),
                 from_token_price(self, q), from_current_amount(self, q), from_target,
                 self.curve_data.sell[q.from_token_id + 1]))

\* usd_value_to_amount(mul_div(target_weight, fund_worth, weight_sum), decimals, avg_price)
target_amount(self, target_weight, token_settings) ==
    usd_value_to_amount(
        SymmetryMath_mul_div(target_weight, self.fund_worth.v, self.fund_state.weight_sum),
        token_settings.decimals, token_settings.oracle_price.avg_price)

quote_fund(self, quote_params, q) ==
    IF self.fund_worth.tag = "None"
    THEN quote_return(q, Err("fund_worth is empty"))
    ELSE quote_targets(self, quote_params, q,
             target_amount(self, from_target_weight(self, q), from_token_settings(self, q)),
             target_amount(self, to_target_weight(self, q), to_token_settings(self, q)))

quote_indexes(self, quote_params, q, from_token_index, to_token_index) ==
    IF from_token_index.tag = "None"
    THEN quote_return(q, Err("fail to find from token index"))
    ELSE IF to_token_index.tag = "None"
    THEN quote_return(q, Err("fail to find to token index"))
    ELSE quote_fund(self, quote_params,
             [q EXCEPT !.reached = "indexes",
                       !.from_token_index = from_token_index.v,
                       !.to_token_index = to_token_index.v])

quote_ids(self, quote_params, from_token_id, to_token_id) ==
    IF from_token_id.tag = "None"
    THEN quote_return(quote_locals, Err("fail to find from token id"))
    ELSE IF to_token_id.tag = "None"
    THEN quote_return(quote_locals, Err("fail to find to token id"))
    ELSE quote_indexes(self, quote_params,
             [quote_locals EXCEPT !.reached = "ids",
                                  !.from_token_id = from_token_id.v,
                                  !.to_token_id = to_token_id.v],
             position_of_token(self.fund_state.current_comp_token, from_token_id.v),
             position_of_token(self.fund_state.current_comp_token, to_token_id.v))

\* fn quote(&self, quote_params): the locals and the Result of the call
quote(self, quote_params) ==
    IF self.token_list.tag = "None"
    THEN quote_return(quote_locals, Err("token_list is empty"))
    ELSE quote_ids(self, quote_params,
                   position_of_mint(self.token_list.v.list, quote_params.input_mint),
                   position_of_mint(self.token_list.v.list, quote_params.output_mint))

---------------------------------------------------------------------------
(* Inputs of update and quote: a pool of three tokens (a stable coin, a    *)
(* volatile token, a dust token of target weight 0), a fund that holds     *)
(* them, curve data, oracle prices, and swaps on both sides of the weight  *)
(* band.                                                                   *)

\* additional_data with the fee shares at bytes 60, 61 and 62
AdditionalData(symmetry_bps, host_bps, manager_bps) ==
    [i \in 0 .. 62 |-> CASE i = 60 -> symmetry_bps
                         [] i = 61 -> host_bps
                         [] i = 62 -> manager_bps
                         [] OTHER -> 0]

AmmToken(mint, decimals, fee_before, fee_after, use_curve_data, oracle_account, shares) ==
    [token_mint |-> mint, decimals |-> decimals,
     lp_on |-> IF mint = "DUST" THEN LP_DISABLED ELSE 1,
     token_swap_fee_before_tw_bps |-> fee_before,
     token_swap_fee_after_tw_bps |-> fee_after,
     use_curve_data |-> use_curve_data,
     oracle_account |-> oracle_account,
     additional_data |-> AdditionalData(shares[1], shares[2], shares[3]),
     oracle_price |-> OraclePrice_default]

\* the token list; shares are the fee shares of the first entry; liquidity
\* provision is switched off for the dust token
AmmTokenList(shares) ==
    [list |-> <<AmmToken("USDC", 6, 10, 50, USE_CURVE_DATA, 1, shares),
                AmmToken("SOL", 9, 10, 50, USE_CURVE_DATA, 2, <<0, 0, 0>>),
                AmmToken("DUST", 0, 0, 0, 0, 3, <<0, 0, 0>>)>>]

\* fee shares that leave a fund fee, and fee shares that exceed the total
TokenLists == {AmmTokenList(<<20, 10, 10>>), AmmTokenList(<<50, 40, 30>>)}

\* an oracle price with a confidence band of bps around avg
AmmPrice(avg, bps) ==
    [sell_price |-> Sub(avg, mul_div(avg, N(bps), BPS_DIVIDER)),
     avg_price |-> avg,
     buy_price |-> Add(avg, mul_div(avg, N(bps), BPS_DIVIDER)),
     oracle_live |-> 1]

UsdcPrice == AmmPrice(ONE_USD, 10)
SolPrice == AmmPrice(MulSmall(ONE_USD, 20), 10)
DustPrice == AmmPrice(N(3), 0)

\* what OraclePrice::load returns for the three oracle accounts
LiveOracles == <<Ok(UsdcPrice), Ok(SolPrice), Ok(DustPrice)>>

\* a buy curve and a sell curve in lots worth 5 USD
AmmBuyCurve(token_price, lot) ==
    WalkCurve([price |-> token_price.avg_price, lot |-> lot],
              <<1, 1, 1, 1, 1, 1, 1, 1, 1, 1>>,
              <<102, 104, 106, 108, 110, 112, 114, 116, 118, 120>>)

AmmSellCurve(token_price, lot) ==
    WalkCurve([price |-> token_price.avg_price, lot |-> lot],
              <<1, 1, 1, 1, 1, 1, 1, 1, 1, 1>>,
              <<98, 96, 94, 92, 90, 88, 86, 84, 82, 80>>)

\* curve data: never written, or written for USDC and SOL
CurveDatas ==
    {CurveData_empty,
     [buy |-> <<AmmBuyCurve(UsdcPrice, MulSmall(Pow(10, 6), 5)),
                AmmBuyCurve(SolPrice, MulSmall(Pow(10, 7), 25)),
                TokenPriceData_empty>>,
      sell |-> <<AmmSellCurve(UsdcPrice, MulSmall(Pow(10, 6), 5)),
                 AmmSellCurve(SolPrice, MulSmall(Pow(10, 7), 25)),
                 TokenPriceData_empty>>]}

\* the fund: 1000 USDC, 50 SOL (1000 USD) and 5 units of dust; the dust
\* token has target weight 0
AmmFundState(rebalance_threshold, lp_offset_threshold, usdc_weight) ==
    [num_of_tokens |-> 3,
     current_comp_token |-> <<0, 1, 2>>,
     current_comp_amount |-> <<Pow(10, 9), MulSmall(Pow(10, 9), 50), N(5)>>,
     target_weight |-> <<N(usdc_weight), N(10000 - usdc_weight), Zero>>,
     weight_sum |-> N(10000),
     rebalance_threshold |-> rebalance_threshold,
     lp_offset_threshold |-> lp_offset_threshold,
     lp_disabled |-> 0]

\* a fund of two tokens, 50 SOL and 5 units of dust: the third slot of its
\* arrays is not populated and holds 0
AmmFundStateOfTwo ==
    [AmmFundState(N(500), N(1000), 5000) EXCEPT
         !.num_of_tokens = 2,
         !.current_comp_token = <<1, 2, 0>>,
         !.current_comp_amount = <<MulSmall(Pow(10, 9), 50), N(5), Zero>>,
         !.target_weight = <<N(10000), Zero, Zero>>]

\* the fund at its target weights with thresholds of 5% and 10% (a band of
\* 0.5%); the fund far above its USDC target with thresholds of 200% and
\* 100% (their product exceeds BPS_DIVIDER^2); thresholds of 2^32 each
\* (their product is 2^64); the first fund with liquidity provision
\* disabled; the fund of two tokens
FundStates ==
    {AmmFundState(N(500), N(1000), 5000),
     AmmFundState(N(20000), N(10000), 1000),
     AmmFundState(Pow(2, 32), Pow(2, 32), 5000),
     [AmmFundState(N(500), N(1000), 5000) EXCEPT !.lp_disabled = 1],
     AmmFundStateOfTwo}

AmmClock == [slot |-> N(1000), unix_timestamp |-> N(1700)]

\* account maps that hold every account, decodable and live: every token
\* list and curve with the first fund, every fund with the first token list
\* and the live curve
GoodAccountMaps ==
    {m \in {[token_list |-> Ok(tl), curve_data |-> Ok(cd), clock |-> Ok(AmmClock),
             fund_state |-> Ok(fs), oracle |-> LiveOracles] :
                tl \in TokenLists, cd \in CurveDatas, fs \in FundStates} :
        \/ m.fund_state.v = AmmFundState(N(500), N(1000), 5000)
        \/ /\ m.token_list.v = AmmTokenList(<<20, 10, 10>>)
           /\ m.curve_data.v # CurveData_empty}

Missing == [tag |-> "Missing"]

\* account maps with one account missing or undecodable, or one oracle not live
BadAccountMaps ==
    UNION {{[m EXCEPT !.token_list = Missing],
            [m EXCEPT !.token_list = Err("Wrong account size for TokenList")],
            [m EXCEPT !.curve_data = Err("Wrong account size for CurveData")],
            [m EXCEPT !.clock = Err("io error: unexpected end of file")],
            [m EXCEPT !.fund_state = Err("Wrong account size for FundState")],
            [m EXCEPT !.oracle[1] = Err("Wrong account size for oracle")],
            [m EXCEPT !.oracle[2] = Ok([SolPrice EXCEPT !.oracle_live = 0])],
            [m EXCEPT !.oracle[3] = Missing]} :
           m \in {g \in GoodAccountMaps :
                     /\ g.token_list.v = AmmTokenList(<<20, 10, 10>>)
                     /\ g.fund_state.v = AmmFundState(N(500), N(1000), 5000)
                     /\ g.curve_data.v # CurveData_empty}}

AccountMaps == GoodAccountMaps \cup BadAccountMaps

\* swaps: 1 USD and 10 USD of USDC for SOL, 1 USD of SOL for USDC, 1 USD
\* and 20 USD of USDC for dust (more than the fund holds), dust for USDC, a
\* mint that is not in the pool, and an amount whose 101% does not fit in
\* a u64
QuoteParamsSet ==
    {[input_mint |-> m[1], output_mint |-> m[2], amount |-> m[3]] :
        m \in {<<"USDC", "SOL", Pow(10, 6)>>,
               <<"USDC", "SOL", Pow(10, 7)>>,
               <<"SOL", "USDC", MulSmall(Pow(10, 7), 5)>>,
               <<"USDC", "DUST", Pow(10, 6)>>,
               <<"USDC", "DUST", MulSmall(Pow(10, 7), 2)>>,
               <<"DUST", "USDC", N(2)>>,
               <<"USDC", "OTHER", Pow(10, 6)>>,
               <<"USDC", "SOL", Pow(2, 63)>>}}

---------------------------------------------------------------------------
(* Specification Spec: the object is built from a fund-state account, then *)
(* update and quote are called in any order.                               *)

\* the part of the object that quote reads
Snapshot(self) ==
    [fund_state |-> self.fund_state, token_list |-> self.token_list,
     curve_data |-> self.curve_data, fund_worth |-> self.fund_worth]

Init ==
    /\ overflow_checks \in BOOLEAN
    /\ md = Idle
    /\ sysvar_clock = Idle
    /\ orc = Idle
    /\ walk = Idle
    /\ dec = Idle
    /\ amm = from_keyed_account(AmmFundState(N(500), N(1000), 5000))
    /\ last = [op |-> "from_keyed_account", params |-> None, q |-> quote_locals,
               result |-> Ok(Unit), installed |-> None]

\* what last holds after update returned r: installed is the snapshot of
\* the last update that returned Ok
update_last(r, installed) ==
    [op |-> "update", params |-> None, q |-> quote_locals, result |-> r.result,
     installed |-> IF r.result.tag = "Ok" THEN Some(Snapshot(r.self)) ELSE installed]

update_call(r, installed) ==
    /\ amm' = r.self
    /\ last' = update_last(r, installed)

Update ==
    /\ \E account_map \in AccountMaps :
           update_call(update(amm, account_map), last.installed)
    /\ UNCHANGED <<overflow_checks, md, sysvar_clock, orc, walk, dec>>

quote_last(r, quote_params, installed) ==
    [op |-> "quote", params |-> Some(quote_params), q |-> r.q, result |-> r.result,
     installed |-> installed]

Quote ==
    /\ \E quote_params \in QuoteParamsSet :
           last' = quote_last(quote(amm, quote_params), quote_params, last.installed)
    /\ UNCHANGED <<overflow_checks, md, sysvar_clock, orc, walk, amm, dec>>

Next == Update \/ Quote

Spec == Init /\ [][Next]_vars

---------------------------------------------------------------------------
(* Properties of quote and update under Spec.                              *)

\* the last call was a quote that returned a Quote
QuoteReturnedOk == last.op = "quote" /\ last.result.tag = "Ok"

\* the input converted from the sell price to the buy price, before it is
\* clipped to the holdings of the bought token
FeeFreeUnclipped ==
    usd_value_to_amount(
        amount_to_usd_value(last.params.v.amount,
                            from_token_settings(amm, last.q).decimals,
                            from_token_settings(amm, last.q).oracle_price.sell_price),
        to_token_settings(amm, last.q).decimals,
        to_token_settings(amm, last.q).oracle_price.buy_price)

\* fee_free_amount: the converted input clipped to current_comp_amount[to]
FeeFreeAmount == Min(FeeFreeUnclipped, to_current_amount(amm, last.q))

(* C1: for every quote that returns a Quote, out_amount + fee_amount is the *)
(* clipped fee-free amount, which is at most current_comp_amount[to], so   *)
(* out_amount <= fee_free_amount and fee_amount = fee_free_amount -        *)
(* out_amount is not negative.                                             *)
C1_OutPlusFeeIsClippedFeeFree ==
    QuoteReturnedOk =>
        /\ Add(last.result.v.out_amount, last.result.v.fee_amount) = FeeFreeAmount
        /\ Le(FeeFreeAmount, to_current_amount(amm, last.q))
        /\ Le(last.result.v.out_amount, FeeFreeAmount)

\* C1 witness: a quote returned a non-zero out_amount although the converted
\* input exceeded the holdings of the bought token and was clipped
C1_Witness ==
    /\ QuoteReturnedOk
    /\ Lt(to_current_amount(amm, last.q), FeeFreeUnclipped)
    /\ last.result.v.out_amount # Zero

\* the last call was a quote that computed from_new_weight and to_new_weight
QuoteWeighed == last.op = "quote" /\ last.q.reached \in {"weights", "bands"}

\* allowed_offset = rebalance_threshold * lp_offset_threshold, as an integer
AllowedOffset ==
    Mul(amm.fund_state.rebalance_threshold, amm.fund_state.lp_offset_threshold)

\* (a) from_new_weight is within the widened target, or dust is removed
FromBandHolds ==
    \/ Le(last.q.from_new_weight,
          Min(mul_div(from_target_weight(amm, last.q),
                      Add(Mul(BPS_DIVIDER, BPS_DIVIDER), AllowedOffset),
                      Mul(BPS_DIVIDER, BPS_DIVIDER)),
              WEIGHT_MULTIPLIER))
    \/ (last.q.from_token_id = 0 /\ to_target_weight(amm, last.q) = Zero)

\* (b) to_new_weight is at least the narrowed target (which is below zero
\* when the offset exceeds BPS_DIVIDER^2)
ToBandHolds ==
    \/ Lt(Mul(BPS_DIVIDER, BPS_DIVIDER), AllowedOffset)
    \/ Le(mul_div(to_target_weight(amm, last.q),
                  Sub(Mul(BPS_DIVIDER, BPS_DIVIDER), AllowedOffset),
                  Mul(BPS_DIVIDER, BPS_DIVIDER)),
          last.q.to_new_weight)

\* a Quote is returned only inside both bands
QuoteOnlyInsideBands == QuoteReturnedOk => (FromBandHolds /\ ToBandHolds)

(* C2: quote returns a Quote only if the from side is within its widened   *)
(* target weight (or dust is removed) and the to side is at least its      *)
(* narrowed target weight; in every other case quote returns an error.     *)
C2_WeightBandAdmission ==
    /\ QuoteOnlyInsideBands
    /\ (QuoteWeighed /\ ~(FromBandHolds /\ ToBandHolds)) => last.result.tag = "Err"

(* C10: when an update fails, the snapshot that quote reads (fund_state,   *)
(* token_list, curve_data, fund_worth) is the one installed by the last    *)
(* update that succeeded.                                                  *)
C10_FailedUpdateKeepsSnapshot ==
    (last.op = "update" /\ last.result.tag # "Ok" /\ last.installed.tag = "Some") =>
        Snapshot(amm) = last.installed.v

\* the last call was a quote that found both mints in the token list
QuoteFoundTokens == last.op = "quote" /\ last.q.reached # "entry"

\* liquidity provision is disabled for the fund or for one of the two
\* tokens, or the oracle price of one of the two tokens is not live
SwapDisabled ==
    \/ amm.fund_state.lp_disabled = 1
    \/ from_token_settings(amm, last.q).lp_on = LP_DISABLED
    \/ to_token_settings(amm, last.q).lp_on = LP_DISABLED
    \/ from_token_price(amm, last.q).oracle_live = 0
    \/ to_token_price(amm, last.q).oracle_live = 0

(* C11: quote returns an error and no Quote whenever the fund has          *)
(* lp_disabled = 1, or the input or output token has lp_on = 0, or the     *)
(* oracle price of the input or output token has oracle_live = 0.          *)
C11_DisabledSwapIsRejected ==
    (QuoteFoundTokens /\ SwapDisabled) => last.result.tag = "Err"

\* fn get_reserve_mints(&self): the mints of the first num_of_tokens tokens
\* of the fund whose lp_on is not LP_DISABLED; empty while token_list is None
get_reserve_mints(self) ==
    IF self.token_list.tag = "None" THEN <<>>
    ELSE SelectSeq(
             [i \in 1 .. self.fund_state.num_of_tokens |->
                 self.token_list.v.list[self.fund_state.current_comp_token[i] + 1]],
             LAMBDA token_settings : token_settings.lp_on # LP_DISABLED)

\* the token id occurs among the first num_of_tokens entries of
\* current_comp_token
HeldByFund(id) ==
    \E i \in 1 .. amm.fund_state.num_of_tokens :
        amm.fund_state.current_comp_token[i] = id

\* quote returned one of its two position-lookup errors
NotHeldError ==
    /\ last.result.tag = "Err"
    /\ last.result.msg \in {"fail to find from token index",
                            "fail to find to token index"}

\* both mints of the last quote are among the reserve mints
QuoteOfReserveMints ==
    /\ last.op = "quote"
    /\ \E i \in DOMAIN get_reserve_mints(amm) :
           get_reserve_mints(amm)[i].token_mint = last.params.v.input_mint
    /\ \E i \in DOMAIN get_reserve_mints(amm) :
           get_reserve_mints(amm)[i].token_mint = last.params.v.output_mint

\* the token and position lookups of quote succeed for two reserve mints
ReserveMintsAreFound ==
    QuoteOfReserveMints => last.q.reached \notin {"entry", "ids"}

(* C12: quote fails with a not-held error whenever the input or the output *)
(* token id does not occur among the first num_of_tokens entries of        *)
(* current_comp_token, also for token id 0 when the unpopulated slots hold *)
(* 0; and for two mints returned by get_reserve_mints the token and        *)
(* position lookups of quote succeed.                                      *)
C12_NotHeldTokenIsRejected ==
    /\ (QuoteFoundTokens /\ ~(HeldByFund(last.q.from_token_id)
                              /\ HeldByFund(last.q.to_token_id)))
           => NotHeldError
    /\ ReserveMintsAreFound

---------------------------------------------------------------------------
(* accounts.rs: FundState::load, TokenList::load, CurveData::load.  A      *)
(* decoded u64 field is its 64-bit value, a Pubkey or byte array is the    *)
(* sequence of its bytes.                                                  *)

FUND_STATE_ACCOUNT_SIZE == 10208
TOKEN_LIST_ACCOUNT_SIZE == 39816
CURVE_DATA_ACCOUNT_SIZE == 64008
MAX_TOKENS_IN_ASSET_POOL == 100
NUM_TOKENS_IN_FUND == 20

\* account_data[off..off + k].try_into(), for a range inside the buffer
Bytes(d, off, k) == [b \in 1 .. k |-> Byte(d, off + b - 1)]

\* FundState::load
FundState_load(account_data) ==
    IF account_data.len # FUND_STATE_ACCOUNT_SIZE
    THEN Err("Wrong account size for FundState")
    ELSE Ok([manager |-> Bytes(account_data, 16, 32),
             host_pubkey |-> Bytes(account_data, 128, 32),
             num_of_tokens |-> le_u64(account_data, 168),
             current_comp_token |->
                 [i \in 1 .. NUM_TOKENS_IN_FUND |-> le_u64(account_data, 176 + (i - 1) * 8)],
             current_comp_amount |->
                 [i \in 1 .. NUM_TOKENS_IN_FUND |-> le_u64(account_data, 336 + (i - 1) * 8)],
             target_weight |->
                 [i \in 1 .. NUM_TOKENS_IN_FUND |-> le_u64(account_data, 656 + (i - 1) * 8)],
             weight_sum |-> le_u64(account_data, 816),
             rebalance_threshold |-> le_u64(account_data, 1024),
             lp_offset_threshold |-> le_u64(account_data, 1040),
             lp_disabled |-> le_u64(account_data, 9432)])

\* the TokenSettings that TokenList::load starts every entry from
TokenSettings_default ==
    [token_mint |-> [b \in 1 .. 32 |-> 0],
     decimals |-> 0,
     coingecko_id |-> [b \in 1 .. 30 |-> 0],
     pda_token_account |-> [b \in 1 .. 32 |-> 0],
     oracle_type |-> 0,
     oracle_account |-> [b \in 1 .. 32 |-> 0],
     oracle_index |-> 0,
     oracle_confidence_pct |-> 0,
     fixed_confidence_bps |-> 0,
     token_swap_fee_after_tw_bps |-> 0,
     token_swap_fee_before_tw_bps |-> 0,
     is_live |-> 0,
     lp_on |-> 0,
     use_curve_data |-> 0,
     additional_data |-> [b \in 1 .. 63 |-> 0],
     oracle_price |-> OraclePrice_default]

\* the body of the loop of TokenList::load for entry i: the fields read
\* from slice = account_data[16 + i*199 .. 16 + (i+1)*199]
token_list_entry(account_data, i) ==
    [TokenSettings_default EXCEPT
         !.token_mint = Bytes(account_data, 16 + i * 199, 32),
         !.decimals = Byte(account_data, 16 + i * 199 + 32),
         !.pda_token_account = Bytes(account_data, 16 + i * 199 + 63, 32),
         !.oracle_type = Byte(account_data, 16 + i * 199 + 95),
         !.oracle_account = Bytes(account_data, 16 + i * 199 + 96, 32),
         !.oracle_index = Byte(account_data, 16 + i * 199 + 128),
         !.oracle_confidence_pct = Byte(account_data, 16 + i * 199 + 129),
         !.fixed_confidence_bps = Byte(account_data, 16 + i * 199 + 130),
         !.token_swap_fee_after_tw_bps = Byte(account_data, 16 + i * 199 + 131),
         !.token_swap_fee_before_tw_bps = Byte(account_data, 16 + i * 199 + 132),
         !.is_live = Byte(account_data, 16 + i * 199 + 133),
         !.lp_on = Byte(account_data, 16 + i * 199 + 134),
         !.use_curve_data = Byte(account_data, 16 + i * 199 + 135),
         !.additional_data = Bytes(account_data, 16 + i * 199 + 136, 63)]

\* iteration i of `for i in 0..num_tokens as usize` aborts: the slice ends
\* past the buffer, or list[i] is outside the array
token_list_entry_aborts(account_data, i) ==
    \/ 16 + (i + 1) * 199 > account_data.len
    \/ i >= MAX_TOKENS_IN_ASSET_POOL

\* the loop of TokenList::load over 0..num_tokens
token_list_loop(account_data, num_tokens) ==
    IF \E i \in 0 .. MAX_TOKENS_IN_ASSET_POOL :
           Lt(N(i), num_tokens) /\ token_list_entry_aborts(account_data, i)
    THEN Panicked
    ELSE Ok([num_tokens |-> num_tokens,
             list |-> [k \in 1 .. MAX_TOKENS_IN_ASSET_POOL |->
                          IF Lt(N(k - 1), num_tokens)
                          THEN token_list_entry(account_data, k - 1)
                          ELSE TokenSettings_default]])

\* TokenList::load
TokenList_load(account_data) ==
    IF account_data.len # TOKEN_LIST_ACCOUNT_SIZE
    THEN Err("Wrong account size for TokenList")
    ELSE token_list_loop(account_data, le_u64(account_data, 8))

\* one TokenPriceData of CurveData::load: amount[j] at base + j*8 and
\* price[j] at base + 80 + j*8
curve_data_entry(account_data, base) ==
    [amount |-> [j \in 1 .. NUM_OF_POINTS_IN_CURVE_DATA |->
                    le_u64(account_data, base + (j - 1) * 8)],
     price |-> [j \in 1 .. NUM_OF_POINTS_IN_CURVE_DATA |->
                   le_u64(account_data, base + 80 + (j - 1) * 8)]]

\* CurveData::load with the two arrays exchanged
CurveData_load_sell_first(account_data) ==
    IF account_data.len # CURVE_DATA_ACCOUNT_SIZE
    THEN Err("Wrong account size for CurveData")
    ELSE Ok([sell |-> [i \in 1 .. MAX_TOKENS_IN_ASSET_POOL |->
                          curve_data_entry(account_data, 8 + (i - 1) * 160)],
             buy |-> [i \in 1 .. MAX_TOKENS_IN_ASSET_POOL |->
                         curve_data_entry(account_data, 32008 + (i - 1) * 160)]])

\* CurveData::load
CurveData_load(account_data) ==
    IF account_data.len # CURVE_DATA_ACCOUNT_SIZE
    THEN Err("Wrong account size for CurveData")
    ELSE Ok([buy |-> [i \in 1 .. MAX_TOKENS_IN_ASSET_POOL |->
                         curve_data_entry(account_data, 8 + (i - 1) * 160)],
             sell |-> [i \in 1 .. MAX_TOKENS_IN_ASSET_POOL |->
                          curve_data_entry(account_data, 32008 + (i - 1) * 160)]])

---------------------------------------------------------------------------
(* Account buffers (inputs of the decoders).                               *)

U64Max == Sub(TwoTo64, One)

\* no note: the buffer was not built from a single curve entry
NoNote == [array |-> "none", i |-> 0, j |-> 0, field |-> "none", value |-> Zero]

\* fund-state buffers of the exact length and one byte off, with the count,
\* the last slot of each array and lp_disabled written
FundStateAccounts ==
    {Write(Write(Write(Write(Write(Blank(len),
         168, ToLe(num_of_tokens, 8)),
         176 + 19 * 8, ToLe(mark, 8)),
         336 + 19 * 8, ToLe(mark, 8)),
         656 + 19 * 8, ToLe(mark, 8)),
         9432, ToLe(mark, 8)) :
        len \in {FUND_STATE_ACCOUNT_SIZE - 1, FUND_STATE_ACCOUNT_SIZE,
                 FUND_STATE_ACCOUNT_SIZE + 1},
        num_of_tokens \in {Zero, N(2), U64Max},
        mark \in {Zero, One, U64Max}}

\* token-list buffers of the exact length and one byte off, whose count is
\* within the array, one past it, or larger (counts that `as usize` keeps
\* above 100 on 32-bit and 64-bit targets alike); the first byte of entry 0
\* and the last byte of entry 99 are written
TokenListAccounts ==
    {Write(Write(Write(Blank(len),
         8, ToLe(num_tokens, 8)),
         16, <<fill>>),
         16 + 100 * 199 - 1, <<fill>>) :
        len \in {TOKEN_LIST_ACCOUNT_SIZE - 1, TOKEN_LIST_ACCOUNT_SIZE,
                 TOKEN_LIST_ACCOUNT_SIZE + 1},
        num_tokens \in {Zero, One, N(100), N(101), N(200), U64Max},
        fill \in {0, 255}}

\* the entries of a curve account that are written: array "first" starts at
\* offset 8 and array "second" at offset 32008
CurveNotes ==
    [array : {"first", "second"}, i : {0, 99}, j : {0, 9},
     field : {"amount", "price"}, value : {U64Max}]

\* the offset of the entry that a note names
CurveOffset(note) ==
    (IF note.array = "first" THEN 8 ELSE 32008) + note.i * 160
    + (IF note.field = "amount" THEN 0 ELSE 80) + note.j * 8

\* a curve account of the given length with one entry written
CurveAccount(len, note) == Write(Blank(len), CurveOffset(note), ToLe(note.value, 8))

DecodeCalls ==
    {[pc |-> "call", kind |-> "FundState", account_data |-> a, note |-> NoNote,
      out |-> Idle] : a \in FundStateAccounts}
    \cup {[pc |-> "call", kind |-> "TokenList", account_data |-> a, note |-> NoNote,
           out |-> Idle] : a \in TokenListAccounts}
    \cup {[pc |-> "call", kind |-> "CurveData", account_data |-> CurveAccount(len, note),
           note |-> note, out |-> Idle] :
             len \in {CURVE_DATA_ACCOUNT_SIZE, CURVE_DATA_ACCOUNT_SIZE + 1},
             note \in CurveNotes}

---------------------------------------------------------------------------
(* Specification SpecDecode: one call of an account decoder.               *)

DecInit ==
    /\ overflow_checks \in BOOLEAN
    /\ md = Idle
    /\ sysvar_clock = Idle
    /\ orc = Idle
    /\ walk = Idle
    /\ amm = Idle
    /\ last = Idle
    /\ dec \in DecodeCalls

DecReturn(out) ==
    /\ dec' = [dec EXCEPT !.pc = "done", !.out = out]
    /\ UNCHANGED <<overflow_checks, md, sysvar_clock, orc, walk, amm, last>>

FundStateLoad ==
    /\ dec.pc = "call"
    /\ dec.kind = "FundState"
    /\ DecReturn(FundState_load(dec.account_data))

TokenListLoad ==
    /\ dec.pc = "call"
    /\ dec.kind = "TokenList"
    /\ DecReturn(TokenList_load(dec.account_data))

CurveDataLoad ==
    /\ dec.pc = "call"
    /\ dec.kind = "CurveData"
    /\ DecReturn(CurveData_load(dec.account_data))

DecNext == FundStateLoad \/ TokenListLoad \/ CurveDataLoad

SpecDecode == DecInit /\ [][DecNext]_vars

\* the length that the decoder of the call requires
RequiredSize ==
    CASE dec.kind = "FundState" -> FUND_STATE_ACCOUNT_SIZE
      [] dec.kind = "TokenList" -> TOKEN_LIST_ACCOUNT_SIZE
      [] dec.kind = "CurveData" -> CURVE_DATA_ACCOUNT_SIZE

(* C13: FundState::load, TokenList::load and CurveData::load return an     *)
(* error exactly when the buffer length differs from 10208, 39816 and      *)
(* 64008 bytes; for every buffer of the exact length, whatever its content *)
(* (including any u64 value of num_tokens), they return a record and never *)
(* abort.                                                                  *)
C13_OnlySizeMismatchFails ==
    dec.pc = "done" =>
        /\ dec.out.tag = "Err" <=> dec.account_data.len # RequiredSize
        /\ dec.account_data.len = RequiredSize => dec.out.tag = "Ok"

\* CurveData::load returned a CurveData for an account with one entry written
CurveDecoded == dec.pc = "done" /\ dec.kind = "CurveData" /\ dec.out.tag = "Ok"

\* the decoded entry of the given array that the note of the call names
NotedEntry(array) ==
    IF dec.note.field = "amount"
    THEN array[dec.note.i + 1].amount[dec.note.j + 1]
    ELSE array[dec.note.i + 1].price[dec.note.j + 1]

(* C18, as the code has it: CurveData::load reads the 100 x 160-byte       *)
(* buy-side slots from offset 8 and the 100 x 160-byte sell-side slots     *)
(* from offset 32008 (each slot: 10 amounts then 10 prices, little-endian  *)
(* u64), so that curve.buy[i] is decoded from bytes 8 + 160*i and          *)
(* curve.sell[i] from bytes 32008 + 160*i.                                 *)
C18_BuyAtEightSellAfter ==
    CurveDecoded =>
        /\ dec.note.array = "first" =>
               /\ NotedEntry(dec.out.v.buy) = dec.note.value
               /\ NotedEntry(dec.out.v.sell) = Zero
        /\ dec.note.array = "second" =>
               /\ NotedEntry(dec.out.v.sell) = dec.note.value
               /\ NotedEntry(dec.out.v.buy) = Zero

\* C18 witness: the price of point 9 of slot 99 at offset 8 was decoded
C18_Witness ==
    /\ CurveDecoded
    /\ dec.note.array = "first"
    /\ dec.note.i = 99
    /\ dec.note.j = 9
    /\ dec.note.field = "price"
    /\ NotedEntry(dec.out.v.buy) = U64Max

(* C18: CurveData::load reads the sell-side slots from offset 8 and the    *)
(* buy-side slots from offset 32008, so that curve.sell[i] is decoded from *)
(* bytes 8 + 160*i and curve.buy[i] from bytes 32008 + 160*i.              *)
C18_SellAtEightBuyAfter ==
    CurveDecoded =>
        /\ dec.note.array = "first" => NotedEntry(dec.out.v.sell) = dec.note.value
        /\ dec.note.array = "second" => NotedEntry(dec.out.v.buy) = dec.note.value

---------------------------------------------------------------------------
(* Properties of OraclePrice::load under SpecOracle.                       *)

\* load returned from a call on an account of the size of its oracle type
OracleLoaded(oracle_type) ==
    /\ orc.pc = "done"
    /\ orc.token_settings.oracle_type = oracle_type
    /\ orc.account_data.len = ORACLE_ACCOUNT_SIZE[oracle_type + 1]

(* C14: for oracle_type 0 or 1 and an account of the right size,           *)
(* OraclePrice::load always returns an OraclePrice and never fails or      *)
(* aborts, for every oracle_index, confidence setting, expo, price, conf,  *)
(* mantissa and timestamp.                                                 *)
C14_LoadAlwaysReturnsPrice ==
    (OracleLoaded(0) \/ OracleLoaded(1)) => orc.out.tag = "Ok"

(* C15: OraclePrice::load called with an oracle_type that is neither 0 nor *)
(* 1 returns OraclePrice {sell_price: 0, avg_price: 0, buy_price: 0,       *)
(* oracle_live: 0}.                                                        *)
C15_UnknownTypeYieldsZeroPrice ==
    (orc.pc = "done" /\ orc.token_settings.oracle_type \notin {0, 1}) =>
        orc.out = Ok(OraclePrice_default)

\* the conditions under which a type 0 reading is not live, in exact
\* arithmetic, for the chain clock of the caller
Type0NotLive ==
    \/ Le(Add(le_u64(orc.account_data, 40), N(50)), sysvar_clock.slot)
    \/ le_u32(orc.account_data, 224) # One
    \/ I64Negative(le_i64(orc.account_data, 208))
    \/ Lt(le_i64(orc.account_data, 208), Mul(le_u64(orc.account_data, 216), N(10)))

(* C16: for a type 0 oracle, with the chain clock supplied by the caller,  *)
(* OraclePrice::load returns oracle_live = 0 whenever clock.slot >=        *)
(* valid_slot + 50, or status != 1, or price < 0, or conf*10 > price, and  *)
(* returns oracle_live = 1 when none of these holds.                       *)
C16_Type0LivenessRule ==
    OracleLoaded(0) =>
        /\ orc.out.tag = "Ok"
        /\ orc.out.v.oracle_live = (IF Type0NotLive THEN 0 ELSE 1)

\* a u64 below Base^2 as an integer
SmallInt(a) == Limb(a, 1) + Base * Limb(a, 2)

\* a type 1 reading was loaded whose entry lies inside the account
Type1Read ==
    /\ OracleLoaded(1)
    /\ orc.token_settings.oracle_index * 8 + 417 <= orc.account_data.len

\* age = clock.unix_timestamp - write_timestamp, for the clock that load reads
Type1Age ==
    SmallInt(Clock_get.unix_timestamp)
    - SmallInt(le_u64(orc.account_data, orc.token_settings.oracle_index * 8 + 409))

\* the time-based confidence in bps for c = oracle_confidence_pct
Type1Bps(age, c) ==
    IF age <= 10 THEN c
    ELSE IF age <= 30 THEN c + 2 * (age - 10)
    ELSE 9900

\* mul_div(mantissa, 10000 - c, 10000)
Type1AvgPrice ==
    mul_div(le_u64(orc.account_data, orc.token_settings.oracle_index * 8 + 9),
            N(10000 - orc.token_settings.oracle_confidence_pct), N(10000))

---------------------------------------------------------------------------
(* Further properties of the curve walkers under SpecWalk.                 *)

\* call k sells a token that the fund holds at or above its target
SoldOverweight(k) ==
    /\ walk.fn = "compute_value_of_sold_token"
    /\ Le(WalkArg(k).target_amount, WalkArg(k).start_amount)

\* the arguments of call k with another token_swap_fee_before_tw_bps
WithOtherFeeBefore(k) ==
    [WalkArg(k) EXCEPT !.token_settings.token_swap_fee_before_tw_bps = 255 - @]

(* C19: whenever start_amount >= target_amount, every slice priced by      *)
(* compute_value_of_sold_token is entirely after target weight             *)
(* (amount_before_tw = 0 at every step, whatever the slice), so the result *)
(* is charged only token_swap_fee_after_tw_bps and does not depend on      *)
(* token_swap_fee_before_tw_bps.                                           *)
C19_OverweightSaleUsesFeeAfterOnly ==
    \A k \in {1, 2} :
        /\ (SoldOverweight(k) /\ WalkRunning(k)) =>
               sold_amount_before_tw(walk.w.current_amount, WalkArg(k).target_amount,
                                     walk.w.left,
                                     U64Add(walk.w.current_amount, walk.w.left)) = Zero
        /\ (SoldOverweight(k) /\ WalkEnded(k)) =>
               WalkOut(k) = sold_call(WithOtherFeeBefore(k))

\* C19 witness: one lot was sold from holdings above the target at the
\* oracle price with fees of 10 and 50 bps, and the value returned is the
\* value of the lot less 50 bps
C19_Witness ==
    /\ SoldOverweight(1)
    /\ WalkEnded(1)
    /\ WalkOut(1).tag = "Ok"
    /\ Lt(WalkArg(1).target_amount, WalkArg(1).start_amount)
    /\ WalkArg(1).token_settings.use_curve_data = 0
    /\ WalkArg(1).token_settings.token_swap_fee_before_tw_bps = 10
    /\ WalkArg(1).token_settings.token_swap_fee_after_tw_bps = 50
    /\ WalkArg(1).input = N(50000)
    /\ WalkOut(1).v = Sub(Mul(N(50000), Pow(10, 6)),
                          mul_div(Mul(N(50000), Pow(10, 6)), N(50), BPS_DIVIDER))

(* C20: zero input gives zero output: compute_value_of_sold_token(0, ...)  *)
(* = 0 and compute_amount_of_bought_token(0, ...) = 0 for every token      *)
(* settings, oracle price, start_amount, target_amount and curve.          *)
C20_ZeroInZeroOut ==
    \A k \in {1, 2} :
        (WalkEnded(k) /\ WalkArg(k).input = Zero) => WalkOut(k) = Ok(Zero)

\* the loop of call k has ended without a panic and the call is about to
\* return Ok(current_output)
WalkReturning(k) == WalkRunning(k) /\ walk.w.pc = "exit"

\* the sold walker returns with nothing left and every unit added to
\* current_amount
SoldAbsorbsInput ==
    \A k \in {1, 2} :
        (walk.fn = "compute_value_of_sold_token" /\ WalkReturning(k)) =>
            /\ walk.w.left = Zero
            /\ walk.w.current_amount = Add(WalkArg(k).start_amount, WalkArg(k).input)

\* the bought walker returns with no value left
BoughtAbsorbsInput ==
    \A k \in {1, 2} :
        (walk.fn = "compute_amount_of_bought_token" /\ WalkReturning(k)) =>
            walk.w.left = Zero

(* C21: the terminal step of both curve walkers absorbs all remaining      *)
(* input: when compute_value_of_sold_token returns, amount_left = 0 and    *)
(* current_amount = start_amount + amount; when                            *)
(* compute_amount_of_bought_token returns, value_left = 0, for every input *)
(* value, price and decimals.                                              *)
C21_TerminalStepAbsorbsInput == SoldAbsorbsInput /\ BoughtAbsorbsInput

\* call k of the bought walker is about to take its terminal step
BoughtAtTerminalStep(k) ==
    /\ walk.fn = "compute_amount_of_bought_token"
    /\ WalkRunning(k)
    /\ walk.w.pc = "loop"
    /\ walk.w.step = NUM_OF_POINTS_IN_CURVE_DATA

\* floor(x * b / c) in exact arithmetic, 0 when c = 0 or when the quotient
\* does not fit in a u64
SaturatedQuotient(x, b, c) ==
    IF c = Zero THEN Zero ELSE try_into_u64(DivMod(Mul(x, b), c).q)

(* C22: in compute_amount_of_bought_token the doubling of value_left on    *)
(* the terminal step cannot overflow outside mul_div: for every u64 value, *)
(* including value_left >= 2^63, the walker does not abort there and the   *)
(* terminal step_amount is the saturating quotient of the exact            *)
(* 2 * value_left, not of a value wrapped mod 2^64.                        *)
C22_DoublingIsAbsorbedByMulDiv ==
    \A k \in {1, 2} :
        BoughtAtTerminalStep(k) =>
            bought_step_amount(walk.w, WalkArg(k))
                = SaturatedQuotient(Mul(walk.w.left, N(2)),
                                    Pow(10, WalkArg(k).token_settings.decimals),
                                    walk.w.current_price)

---------------------------------------------------------------------------
(* Further properties of update under Spec.                                *)

\* the token settings of position i (from 0) of the fund
HeldToken(self, i) ==
    self.token_list.v.list[self.fund_state.current_comp_token[i + 1] + 1]

\* the worth of position i: amount_to_usd(current_comp_amount[i], decimals,
\* avg_price)
HeldWorth(self, i) ==
    amount_to_usd_value(self.fund_state.current_comp_amount[i + 1],
                        HeldToken(self, i).decimals,
                        HeldToken(self, i).oracle_price.avg_price)

\* the sum of the worths of the positions below n
RECURSIVE SumOfWorths(_, _)
SumOfWorths(self, n) ==
    IF n = 0 THEN Zero ELSE Add(SumOfWorths(self, n - 1), HeldWorth(self, n - 1))

\* the last call was an update that returned Ok
UpdateReturnedOk == last.op = "update" /\ last.result.tag = "Ok"

(* C23: following each successful update the stored fund_worth equals the  *)
(* sum, over every position i < num_of_tokens of the fund state decoded in *)
(* that update, of amount_to_usd(current_comp_amount[i], decimals,         *)
(* avg_price), and every one of those held tokens has a loaded oracle      *)
(* price with oracle_live = 1, also when num_of_tokens differs from its    *)
(* value in the previous snapshot.                                         *)
C23_FundWorthCoversEveryHeldToken ==
    UpdateReturnedOk =>
        /\ amm.fund_worth = Some(SumOfWorths(amm, amm.fund_state.num_of_tokens))
        /\ \A i \in 0 .. amm.fund_state.num_of_tokens - 1 :
               HeldToken(amm, i).oracle_price.oracle_live = 1

====
